---- MODULE Spec2Model ----
(***************************************************************************)
(* Signal aggregation and scoring core of the nagar backend: the report    *)
(* store, the ingestion gate, the status workflow, the report confidence   *)
(* engine, priority and escalation, and the issue aggregation engine.      *)
(*                                                                         *)
(* The document store is the pair (reports, issues).  A report id is the   *)
(* position of the document in `reports`; an issue id is the position of   *)
(* the document in `issues`.  Handlers are processes whose steps are the   *)
(* store operations they perform, so that overlapping requests interleave  *)
(* exactly at the reads and writes of the code.  Time is in minutes.       *)
(***************************************************************************)
EXTENDS Integers, Sequences, FiniteSets, TLC

VARIABLES reports, issues, clock, rev, sub, agg

vars == <<reports, issues, clock, rev, sub, agg>>

(***************************************************************************)
(* Bounds of the model.                                                    *)
(***************************************************************************)
MaxHistory == 4
MaxStatusReports == 1
MaxGateReports == 6
MaxGateClock == 64
GateTick == 16
MaxFailureReports == 2
MaxConfidenceReports == 4
MaxConfidenceClock == 32
ConfidenceTick == 16
MaxRaceReports == 2
MaxAggregationReports == 5
MaxJoinReports == 8
MaxLateReports == 8
MaxPlacesReports == 13
MaxProviderReports == 3
MaxRerunReports == 9

(***************************************************************************)
(* Python values.                                                          *)
(***************************************************************************)
None == -1
NoneStr == "<None>"
Truthy(s) == s \notin {"", NoneStr}

Min2(a, b) == IF a < b THEN a ELSE b
Max2(a, b) == IF a > b THEN a ELSE b
Abs(x) == IF x < 0 THEN -x ELSE x

Reviewers == {"rv1", "rv2"}
Submitters == {"s1", "s2"}

(***************************************************************************)
(* status_workflow.py                                                      *)
(***************************************************************************)
ReportStatus == {"UNDER_REVIEW", "VERIFIED", "ACTION_TAKEN", "CLOSED"}

ALLOWED_TRANSITIONS(s) ==
    CASE s = "UNDER_REVIEW" -> <<"VERIFIED">>
      [] s = "VERIFIED" -> <<"ACTION_TAKEN">>
      [] s = "ACTION_TAKEN" -> <<"CLOSED">>
      [] s = "CLOSED" -> <<>>
      [] OTHER -> <<>>

SeqRange(q) == {q[i] : i \in 1..Len(q)}

is_valid_transition_skip(from_status, to_status) ==
    IF from_status \notin ReportStatus \/ to_status \notin ReportStatus
    THEN FALSE
    ELSE IF from_status = to_status
         THEN TRUE
         ELSE to_status \in SeqRange(ALLOWED_TRANSITIONS(from_status))
                 \/ (from_status = "UNDER_REVIEW" /\ to_status = "ACTION_TAKEN")

is_valid_transition(from_status, to_status) ==
    IF from_status \notin ReportStatus \/ to_status \notin ReportStatus
    THEN FALSE
    ELSE IF from_status = to_status
         THEN TRUE
         ELSE to_status \in SeqRange(ALLOWED_TRANSITIONS(from_status))

get_allowed_transitions(current_status) ==
    IF current_status \in ReportStatus
    THEN ALLOWED_TRANSITIONS(current_status)
    ELSE <<>>

\* note or "": a missing note is stored as the empty string
create_status_history_entry(from_status, to_status, changed_by, note, now) ==
    [from |-> from_status, to |-> to_status, changed_by |-> changed_by,
     timestamp |-> now, note |-> IF Truthy(note) THEN note ELSE ""]

\* The result of validate_and_transition: either the ValueError with the
\* allowed next states, or the history entry of the accepted transition.
validate_and_transition(current_status, new_status, changed_by, note, now) ==
    IF ~is_valid_transition(current_status, new_status)
    THEN [valid |-> FALSE, allowed |-> get_allowed_transitions(current_status),
          history_entry |-> <<>>]
    ELSE [valid |-> TRUE, allowed |-> <<>>,
          history_entry |->
              <<create_status_history_entry(current_status, new_status,
                                            changed_by, note, now)>>]

\* SERVER_TIMESTAMP inside a written document is the store's time at the write
resolve_timestamp(entry, now) == [entry EXCEPT !.timestamp = now]

(***************************************************************************)
(* utils/security.py and utils/geocoding.py over the strings of the model. *)
(* Strings are opaque in TLA+, so strip/lower/upper are given by what they *)
(* return on every string the model submits.                               *)
(***************************************************************************)
IPs == {"", " ", "10.0.0.1", "10.0.0.2"}

StripStr(s) ==
    CASE s = " " -> ""
      [] s = " Pune" -> "Pune"
      [] OTHER -> s

LowerStr(s) ==
    CASE s = "Pune" -> "pune"
      [] s = "PUNE" -> "pune"
      [] s = "India" -> "india"
      [] s = "Nashik" -> "nashik"
      [] s = "UNKNOWN" -> "unknown"
      [] s = "Unknown" -> "unknown"
      [] s = "Water" -> "water"
      [] s = "Leak" -> "leak"
      [] s = "Pothole" -> "pothole"
      [] s = "Garbage" -> "garbage"
      [] s = "Pipe" -> "pipe"
      [] s = "Burst" -> "burst"
      [] s = "Flood" -> "flood"
      [] s = "Drain" -> "drain"
      [] s = "Sewage" -> "sewage"
      [] OTHER -> s

UpperStr(s) ==
    CASE s = "Pune" -> "PUNE"
      [] s = "pune" -> "PUNE"
      [] s = "India" -> "INDIA"
      [] s = "Nashik" -> "NASHIK"
      [] s = "nashik" -> "NASHIK"
      [] s = "Unknown" -> "UNKNOWN"
      [] s = "unknown" -> "UNKNOWN"
      [] OTHER -> s

\* sha256(salt + ip)[:16]: one digest per address, None for a blank address
hash_ip_address(ip_address) ==
    IF ~Truthy(ip_address) \/ ~Truthy(StripStr(ip_address))
    THEN NoneStr
    ELSE CASE ip_address = "10.0.0.1" -> "5f1c0a9e3b7d2e44"
           [] ip_address = "10.0.0.2" -> "c03a7be1d9f46a20"
           [] OTHER -> "0000000000000000"

normalize_city_name(city) ==
    IF ~Truthy(city)
    THEN "UNKNOWN"
    ELSE LET normalized == StripStr(city)
         IN  IF ~Truthy(normalized) \/ UpperStr(normalized) = "UNKNOWN"
             THEN "UNKNOWN"
             ELSE IF LowerStr(normalized) \in {"india", "test city", ""}
                  THEN "UNKNOWN"
                  ELSE LowerStr(normalized)

\* The localities of the model: "Kothrud, Pune" names a known city,
\* "MG Road" names none and has no comma part.
derive_city_from_locality(locality) ==
    IF ~Truthy(locality) \/ ~Truthy(StripStr(locality))
    THEN "UNKNOWN"
    ELSE CASE locality = "Kothrud, Pune" -> "Pune"
           [] OTHER -> "UNKNOWN"

derive_city_from_coordinates(latitude, longitude) == "UNKNOWN"

ensure_city_not_null(city, locality, latitude, longitude) ==
    IF Truthy(city) /\ normalize_city_name(city) # "UNKNOWN"
    THEN normalize_city_name(city)
    ELSE IF Truthy(locality) /\ derive_city_from_locality(locality) # "UNKNOWN"
         THEN normalize_city_name(derive_city_from_locality(locality))
         ELSE IF latitude # None /\ longitude # None
                   /\ derive_city_from_coordinates(latitude, longitude) # "UNKNOWN"
              THEN normalize_city_name(derive_city_from_coordinates(latitude, longitude))
              ELSE "UNKNOWN"

(***************************************************************************)
(* Geometry.  Coordinates are metres north and east of (0, 0); within the  *)
(* few kilometres the model spans, the haversine distance is the planar    *)
(* distance, so "distance <= m" is decided on squares.                     *)
(***************************************************************************)
haversine_within(lat1, lon1, lat2, lon2, meters) ==
    (lat1 - lat2) * (lat1 - lat2) + (lon1 - lon2) * (lon1 - lon2)
        <= meters * meters

(***************************************************************************)
(* The report document written by create_report (report_service.py).       *)
(***************************************************************************)
EmptyAI == [ai_classified_category |-> "", model_name |-> ""]

new_report_dict(inp, ip_address_hash, city, now) ==
    [description |-> inp.description,
     issue_type |-> IF Truthy(inp.issue_type) THEN inp.issue_type ELSE "",
     city |-> city,
     locality |-> inp.locality,
     latitude |-> inp.latitude,
     longitude |-> inp.longitude,
     ip_address_hash |-> ip_address_hash,
     media_urls |-> inp.media_urls,
     confidence |-> "LOW",
     status |-> "UNDER_REVIEW",
     status_history |->
         <<resolve_timestamp(
               create_status_history_entry("", "UNDER_REVIEW", "system",
                                           "Report created", None), now)>>,
     ai_metadata |-> EmptyAI,
     priority_score |-> None,
     escalation_flag |-> FALSE,
     escalation_reason |-> <<>>,
     escalation_history |-> <<>>,
     created_at |-> now,
     issue_id |-> None]

Ids(store) == 1..Len(store)

(***************************************************************************)
(* duplicate_detection.py                                                  *)
(***************************************************************************)
DUPLICATE_TIME_WINDOW_MINUTES == 15
DUPLICATE_DISTANCE_THRESHOLD_METERS == 50
MAX_REPORTS_PER_IP_PER_HOUR == 5
MinutesPerHour == 60

\* set(text.lower().split()): a description is its sequence of words
WordSet(text) == {LowerStr(text[i]) : i \in 1..Len(text)}

\* _text_similarity(a, b) >= 0.7: a threshold that is met, not exceeded
text_similarity_at_least(text1, text2) ==
    IF Len(text1) = 0 \/ Len(text2) = 0
    THEN FALSE
    ELSE 10 * Cardinality(WordSet(text1) \cap WordSet(text2))
            >= 7 * Cardinality(WordSet(text1) \cup WordSet(text2))

\* _text_similarity(a, b) > 0.7, on the integers: 10 * |a & b| > 7 * |a | b|
text_similarity_above(text1, text2) ==
    IF Len(text1) = 0 \/ Len(text2) = 0
    THEN FALSE
    ELSE 10 * Cardinality(WordSet(text1) \cap WordSet(text2))
            > 7 * Cardinality(WordSet(text1) \cup WordSet(text2))

\* The reason check_duplicate gives for stored report r, "" when r is no match
duplicate_reason(r, ip_address_hash, latitude, longitude, description) ==
    IF Truthy(ip_address_hash) /\ r.ip_address_hash = ip_address_hash
    THEN "same_ip"
    ELSE IF latitude # None /\ longitude # None
              /\ r.latitude # None /\ r.longitude # None
              /\ haversine_within(latitude, longitude, r.latitude, r.longitude,
                                  DUPLICATE_DISTANCE_THRESHOLD_METERS)
         THEN "same_location"
         ELSE IF text_similarity_above(description, r.description)
              THEN "similar_description"
              ELSE ""

check_duplicate(store, ip_address_hash, locality, latitude, longitude, description, now) ==
    LET time_threshold == now - DUPLICATE_TIME_WINDOW_MINUTES
        duplicates == {i \in Ids(store) :
                          /\ store[i].locality = locality
                          /\ store[i].created_at >= time_threshold
                          /\ duplicate_reason(store[i], ip_address_hash, latitude,
                                              longitude, description) # ""}
    IN  IF duplicates # {}
        THEN LET first == CHOOSE i \in duplicates : \A j \in duplicates : i <= j
             IN  [is_duplicate |-> TRUE, duplicate_report_id |-> first,
                  reason |-> duplicate_reason(store[first], ip_address_hash,
                                              latitude, longitude, description)]
        ELSE [is_duplicate |-> FALSE, duplicate_report_id |-> None, reason |-> ""]

recent_count(store, ip_address_hash, now) ==
    Cardinality({i \in Ids(store) :
                    /\ store[i].ip_address_hash = ip_address_hash
                    /\ store[i].created_at >= now - MinutesPerHour})

check_rate_limit_over(store, ip_address_hash, now) ==
    IF ~Truthy(ip_address_hash)
    THEN [is_rate_limited |-> FALSE, remaining |-> None]
    ELSE IF recent_count(store, ip_address_hash, now) > MAX_REPORTS_PER_IP_PER_HOUR
         THEN [is_rate_limited |-> TRUE, remaining |-> 0]
         ELSE [is_rate_limited |-> FALSE,
               remaining |-> MAX_REPORTS_PER_IP_PER_HOUR
                                - recent_count(store, ip_address_hash, now)]

check_rate_limit(store, ip_address_hash, now) ==
    IF ~Truthy(ip_address_hash)
    THEN [is_rate_limited |-> FALSE, remaining |-> None]
    ELSE IF recent_count(store, ip_address_hash, now) >= MAX_REPORTS_PER_IP_PER_HOUR
         THEN [is_rate_limited |-> TRUE, remaining |-> 0]
         ELSE [is_rate_limited |-> FALSE,
               remaining |-> MAX_REPORTS_PER_IP_PER_HOUR
                                - recent_count(store, ip_address_hash, now)]

(***************************************************************************)
(* confidence_engine.py                                                    *)
(***************************************************************************)
TIME_WINDOW_MINUTES == 30

ConfRank(c) == CASE c = "LOW" -> 0 [] c = "MEDIUM" -> 1 [] c = "HIGH" -> 2 [] OTHER -> 0

\* ids of the stored reports with the same locality and AI category created
\* at or after created_at - TIME_WINDOW_MINUTES, the report itself excluded
find_similar_reports_by_locality(store, ai_category, locality, created_at, exclude_id) ==
    {i \in Ids(store) :
        /\ store[i].locality = locality
        /\ store[i].created_at >= created_at - TIME_WINDOW_MINUTES
        /\ i # exclude_id
        /\ store[i].ai_metadata.ai_classified_category = ai_category}

\* The category recalculate_confidence classifies the report by
classification_category(new_report) ==
    new_report.ai_metadata.ai_classified_category

\* The label for total_similar reports (the new report included)
label_for_total_strict(total_similar) ==
    IF total_similar > 4
    THEN "HIGH"
    ELSE IF total_similar > 2 THEN "MEDIUM" ELSE "LOW"

label_for_total(total_similar) ==
    IF total_similar >= 4
    THEN "HIGH"
    ELSE IF total_similar >= 2 THEN "MEDIUM" ELSE "LOW"

\* Whether a matched peer whose snapshot says `current_confidence` is rewritten
\* when the new report's label is `label`
peer_is_rewritten(label, current_confidence) ==
    CASE label = "HIGH" -> current_confidence # "HIGH"
      [] label = "MEDIUM" -> current_confidence = "LOW"
      [] OTHER -> FALSE

(***************************************************************************)
(* priority_scoring.py                                                     *)
(***************************************************************************)
PERSISTENCE_THRESHOLD_HOURS == 24
PERSISTENCE_BONUS_PER_DAY == 5
MEDIA_BONUS == 10
LOCALITY_REPETITION_BONUS == 5

ISSUE_TYPE_WEIGHTS(t) ==
    CASE t \in {"Safety", "Safety Concern", "Public Safety"} -> 30
      [] t \in {"Traffic", "Roadblock"} -> 20
      [] t \in {"Power", "Water"} -> 15
      [] t = "Infrastructure" -> 10
      [] OTHER -> 5

CONFIDENCE_WEIGHTS(c) ==
    CASE c = "HIGH" -> 30 [] c = "MEDIUM" -> 15 [] OTHER -> 5

STATUS_WEIGHTS(s) ==
    CASE s = "VERIFIED" -> 20
      [] s = "ACTION_TAKEN" -> 10
      [] s = "UNDER_REVIEW" -> 15
      [] s = "CLOSED" -> 0
      [] OTHER -> 10

\* A bonus that grows by 5 with every full day beyond the threshold only
calculate_persistence_score_full_days(created_at, now) ==
    LET age_minutes == now - created_at
        threshold == PERSISTENCE_THRESHOLD_HOURS * MinutesPerHour
    IN  IF age_minutes > threshold
        THEN Min2(((age_minutes - threshold) \div (24 * MinutesPerHour))
                      * PERSISTENCE_BONUS_PER_DAY, 20)
        ELSE 0

\* int(((age_hours - 24) / 24) * 5), capped at 20, for an age in minutes
calculate_persistence_score(created_at, now) ==
    LET age_minutes == now - created_at
        threshold == PERSISTENCE_THRESHOLD_HOURS * MinutesPerHour
    IN  IF age_minutes > threshold
        THEN Min2(((age_minutes - threshold) * PERSISTENCE_BONUS_PER_DAY)
                      \div (24 * MinutesPerHour), 20)
        ELSE 0

\* non-closed reports of the same locality and city, the report itself excluded
count_reports_in_locality(store, locality, city, exclude_report_id) ==
    Cardinality({i \in Ids(store) :
                    /\ store[i].locality = locality
                    /\ store[i].city = city
                    /\ i # exclude_report_id
                    /\ store[i].status # "CLOSED"})

calculate_locality_repetition_score(store, locality, city, exclude_report_id) ==
    Min2(count_reports_in_locality(store, locality, city, exclude_report_id)
             * LOCALITY_REPETITION_BONUS, 15)

calculate_priority(store, report, report_id, now) ==
    LET score ==
            CONFIDENCE_WEIGHTS(report.confidence)
            + ISSUE_TYPE_WEIGHTS(report.issue_type)
            + STATUS_WEIGHTS(report.status)
            + (IF Len(report.media_urls) > 0 THEN MEDIA_BONUS ELSE 0)
            + calculate_persistence_score(report.created_at, now)
            + (IF Truthy(report.locality) /\ Truthy(report.city)
               THEN calculate_locality_repetition_score(store, report.locality,
                                                        report.city, report_id)
               ELSE 0)
    IN  Max2(0, Min2(100, score))

\* The number calculate_priority returns when its computation raises
PRIORITY_FALLBACK_SCORE == 10

(***************************************************************************)
(* escalation_engine.py                                                    *)
(***************************************************************************)
ESCALATION_PRIORITY_THRESHOLD == 70
ESCALATION_PERSISTENCE_HOURS == 48
ESCALATION_LOCALITY_REPORT_COUNT == 5
SAFETY_CRITICAL_ISSUE_TYPES == {"Safety", "Safety Concern", "Public Safety"}

\* The rules that hold for the report, in the order the code evaluates them
escalation_reasons(store, report, report_id, now) ==
    (IF report.priority_score >= ESCALATION_PRIORITY_THRESHOLD
     THEN <<"High priority score">> ELSE <<>>)
    \o (IF /\ report.confidence = "HIGH"
           /\ Truthy(report.locality) /\ Truthy(report.city)
           /\ count_reports_in_locality(store, report.locality, report.city,
                                        report_id)
                  >= ESCALATION_LOCALITY_REPORT_COUNT
        THEN <<"HIGH confidence + locality reports">> ELSE <<>>)
    \o (IF /\ report.status = "VERIFIED"
           /\ now - report.created_at
                  >= ESCALATION_PERSISTENCE_HOURS * MinutesPerHour
        THEN <<"VERIFIED issue persisting">> ELSE <<>>)
    \o (IF report.issue_type \in SAFETY_CRITICAL_ISSUE_TYPES
        THEN <<"Safety-critical issue type">> ELSE <<>>)

\* What evaluate_escalation returns from its except branch
ESCALATION_FAILED == [escalation_flag |-> FALSE, escalation_reason |-> <<"Escalation evaluation failed">>]

\* A stored priority_score of None (report_service.py line 119) makes the
\* comparison of rule 1 raise a TypeError, which the except branch answers
evaluate_escalation(store, report, report_id, now) ==
    LET reasons == escalation_reasons(store, report, report_id, now)
    IN  IF report.priority_score = None
        THEN ESCALATION_FAILED
        ELSE [escalation_flag |-> Len(reasons) > 0,
              escalation_reason |-> reasons]

\* The document after update_escalation_flag: untouched when the flag is the same
update_escalation_flag(doc, escalation_flag, escalation_reason, changed_by, now) ==
    IF doc.escalation_flag # escalation_flag
    THEN [doc EXCEPT
            !.escalation_flag = escalation_flag,
            !.escalation_reason =
                IF Len(escalation_reason) > 0 THEN escalation_reason ELSE @,
            !.escalation_history =
                Append(@, [from_flag |-> doc.escalation_flag,
                           to_flag |-> escalation_flag,
                           changed_by |-> changed_by,
                           timestamp |-> now,
                           reason |-> escalation_reason])]
    ELSE doc

(***************************************************************************)
(* Processes.  A reviewer (admin route) handles one request at a time; a   *)
(* submitter runs one create_report at a time.                             *)
(***************************************************************************)
NoInput ==
    [description |-> <<>>, issue_type |-> "", city |-> "", locality |-> "",
     latitude |-> None, longitude |-> None, ip_address |-> "",
     media_urls |-> <<>>]

ReviewerReady ==
    [pc |-> "ready", op |-> "", rid |-> None, req |-> "", cur |-> "",
     hist |-> <<>>, entry |-> <<>>, out |-> "", allowed |-> <<>>]

SubmitterReady ==
    [pc |-> "ready", inp |-> NoInput, rid |-> None, label |-> "",
     total |-> None, peers |-> <<>>, snap |-> <<>>, out |-> "", failed |-> {}]

Aggregators == {"a1", "a2"}

\* An idle run of attempt_issue_aggregation.  all_reports, clusters and
\* unlinked_reports are the locals of that name (report ids), todo is the
\* part of unlinked_reports the second loop has still to visit.
AggregatorReady ==
    [pc |-> "ready", all_reports |-> <<>>, clusters |-> <<>>,
     unlinked_reports |-> <<>>, todo |-> <<>>, cluster |-> <<>>,
     existing_issue_id |-> None, issue_id |-> None, links |-> <<>>,
     update_data |-> <<>>, updated_issue_ids |-> <<>>, out |-> ""]

\* The empty store, every handler idle
InitStore ==
    /\ reports = <<>>
    /\ issues = <<>>
    /\ clock = 0
    /\ rev = [v \in Reviewers |-> ReviewerReady]
    /\ sub = [p \in Submitters |-> SubmitterReady]
    /\ agg = [a \in Aggregators |-> AggregatorReady]

\* Time passes between store operations
Tick(d, max_clock) ==
    /\ clock + d <= max_clock
    /\ clock' = clock + d
    /\ UNCHANGED <<reports, issues, rev, sub, agg>>

(***************************************************************************)
(* ReviewerService.update_status (reviewer_service.py): doc_ref.get() and  *)
(* the validation, then doc_ref.update().                                  *)
(***************************************************************************)
\* The document written by update_status for an accepted request
status_update(doc, new_status, status_history, history_entry, now) ==
    [doc EXCEPT
        !.status = new_status,
        !.status_history =
            Append(status_history, resolve_timestamp(history_entry, now))]

UpdateStatusRead(v, report_id, new_status, note) ==
    /\ rev[v].pc = "ready"
    /\ IF report_id \notin Ids(reports)
       THEN rev' = [rev EXCEPT ![v] =
                [ReviewerReady EXCEPT !.op = "update_status", !.rid = report_id,
                                      !.out = "not_found"]]
       ELSE LET current_status == reports[report_id].status
                tr == validate_and_transition(current_status, new_status, v,
                                              note, None)
            IN  IF ~tr.valid
                THEN rev' = [rev EXCEPT ![v] =
                        [ReviewerReady EXCEPT
                            !.op = "update_status", !.rid = report_id,
                            !.req = new_status,
                            !.out = "invalid", !.allowed = tr.allowed]]
                ELSE /\ Len(reports[report_id].status_history) < MaxHistory
                     /\ rev' = [rev EXCEPT ![v] =
                            [ReviewerReady EXCEPT
                                !.pc = "validated", !.op = "update_status",
                                !.rid = report_id, !.req = new_status,
                                !.cur = current_status,
                                !.hist = reports[report_id].status_history,
                                !.entry = tr.history_entry]]
    /\ UNCHANGED <<reports, issues, clock, sub, agg>>

UpdateStatusWrite(v) ==
    /\ rev[v].pc = "validated"
    /\ rev[v].op = "update_status"
    /\ reports' = [reports EXCEPT ![rev[v].rid] =
            status_update(@, rev[v].req, rev[v].hist, rev[v].entry[1], clock)]
    /\ rev' = [rev EXCEPT ![v] =
            [ReviewerReady EXCEPT !.op = "update_status", !.out = "ok"]]
    /\ UNCHANGED <<issues, clock, sub, agg>>

(***************************************************************************)
(* PATCH /reports/{id}/confidence (routes/admin.py): get_report_by_id and  *)
(* the already-HIGH check, then upgrade_report_confidence's update.        *)
(***************************************************************************)
UpgradeConfidenceRead(v, report_id) ==
    /\ rev[v].pc = "ready"
    /\ rev' = [rev EXCEPT ![v] =
            IF report_id \notin Ids(reports)
            THEN [ReviewerReady EXCEPT !.op = "upgrade_confidence",
                                       !.rid = report_id, !.out = "not_found"]
            ELSE IF reports[report_id].confidence = "HIGH"
                 THEN [ReviewerReady EXCEPT !.op = "upgrade_confidence",
                                            !.rid = report_id,
                                            !.out = "already_high"]
                 ELSE [ReviewerReady EXCEPT !.pc = "validated",
                                            !.op = "upgrade_confidence",
                                            !.rid = report_id]]
    /\ UNCHANGED <<reports, issues, clock, sub, agg>>

UpgradeConfidenceWrite(v) ==
    /\ rev[v].pc = "validated"
    /\ rev[v].op = "upgrade_confidence"
    /\ reports' = [reports EXCEPT ![rev[v].rid].confidence = "HIGH"]
    /\ rev' = [rev EXCEPT ![v] =
            [ReviewerReady EXCEPT !.op = "upgrade_confidence", !.out = "ok"]]
    /\ UNCHANGED <<issues, clock, sub, agg>>

(***************************************************************************)
(* create_report (report_service.py), one step per store operation.        *)
(* `fail` says which operation of the step raises.                         *)
(***************************************************************************)
InFlight == Cardinality({q \in Submitters : sub[q].pc \in {"dup", "persist"}})

\* lines 56-64: hash the address, check_rate_limit.  Neither check_rate_limit
\* nor create_report catches a store read that raises.
SubmitRateLimit(p, inp, fail, maxReports) ==
    /\ sub[p].pc = "ready"
    /\ Len(reports) + InFlight < maxReports
    /\ LET ip_address_hash == hash_ip_address(inp.ip_address)
           started == [SubmitterReady EXCEPT !.inp = inp]
       IN  sub' = [sub EXCEPT ![p] =
               IF fail
               THEN [started EXCEPT !.out = "error",
                                    !.failed = {"rate_limit_read"}]
               ELSE IF check_rate_limit(reports, ip_address_hash, clock).is_rate_limited
                    THEN [started EXCEPT !.out = "rate_limited"]
                    ELSE [started EXCEPT !.pc = "dup"]]
    /\ UNCHANGED <<reports, issues, clock, rev, agg>>

\* lines 66-78: check_duplicate, which catches nothing either
SubmitDuplicate(p, fail) ==
    /\ sub[p].pc = "dup"
    /\ LET inp == sub[p].inp
           dup == check_duplicate(reports, hash_ip_address(inp.ip_address),
                                  inp.locality, inp.latitude, inp.longitude,
                                  inp.description, clock)
       IN  sub' = [sub EXCEPT ![p] =
               IF fail
               THEN [@ EXCEPT !.pc = "ready", !.out = "error",
                              !.failed = @ \cup {"duplicate_read"}]
               ELSE IF dup.is_duplicate
                    THEN [@ EXCEPT !.pc = "ready", !.out = "duplicate"]
                    ELSE [@ EXCEPT !.pc = "persist"]]
    /\ UNCHANGED <<reports, issues, clock, rev, agg>>

\* lines 80-134: the document and doc_ref.set(); a failed write is re-raised
SubmitPersist(p, fail) ==
    /\ sub[p].pc = "persist"
    /\ LET inp == sub[p].inp
           city == ensure_city_not_null(inp.city, inp.locality, inp.latitude,
                                        inp.longitude)
       IN  IF fail
           THEN /\ sub' = [sub EXCEPT ![p].pc = "ready", ![p].out = "error",
                                      ![p].failed = @ \cup {"persist"}]
                /\ UNCHANGED reports
           ELSE /\ reports' = Append(reports,
                        new_report_dict(inp, hash_ip_address(inp.ip_address),
                                        city, clock))
                /\ sub' = [sub EXCEPT ![p].pc = "ai", ![p].rid = Len(reports) + 1]
    /\ UNCHANGED <<issues, clock, rev, agg>>

\* The store after an engine step of create_report has raised: the except
\* branches log and go on, the persisted document stays
store_after_engine_failure_rollback(store, report_id) ==
    SubSeq(store, 1, report_id - 1)

store_after_engine_failure(store, report_id) == store

\* lines 136-185: the AI interpretation.  `ai` is what the provider and the
\* store do: "disabled" (AI_ENABLED false), a category (the result is stored),
\* "raise" (the step raises, the error metadata is stored) or "raise_twice"
\* (storing the error metadata raises too).
AIFailures == {"raise", "raise_twice"}

SubmitAI(p, ai) ==
    /\ sub[p].pc = "ai"
    /\ LET rid == sub[p].rid
       IN  /\ reports' =
                 CASE ai = "disabled" -> reports
                   [] ai = "raise" ->
                        LET kept == store_after_engine_failure(reports, rid)
                        IN  IF rid \in Ids(kept)
                            THEN [kept EXCEPT ![rid].ai_metadata =
                                     [ai_classified_category |-> "",
                                      model_name |-> "error"]]
                            ELSE kept
                   [] ai = "raise_twice" ->
                        store_after_engine_failure(reports, rid)
                   [] OTHER ->
                        [reports EXCEPT ![rid].ai_metadata =
                            [ai_classified_category |-> ai,
                             model_name |-> "provider"]]
           /\ sub' = [sub EXCEPT ![p].pc = "conf",
                                 ![p].failed =
                                     IF ai \in AIFailures
                                     THEN @ \cup {"ai"} ELSE @]
    /\ UNCHANGED <<issues, clock, rev, agg>>

RECURSIVE SortedSeq(_)
SortedSeq(S) ==
    IF S = {}
    THEN <<>>
    ELSE LET m == CHOOSE x \in S : \A y \in S : x <= y
         IN  <<m>> \o SortedSeq(S \ {m})

\* _update_confidence: one doc_ref.update of the label
update_confidence(store, report_id, confidence) ==
    [store EXCEPT ![report_id].confidence = confidence]

\* lines 187-198 and recalculate_confidence up to its first write: the
\* document is read, the label decided and the peers queried.
\* fail: "none", "get" (doc_ref.get raises) or "query" (the peer query raises).
SubmitConfidenceRead(p, fail) ==
    /\ sub[p].pc = "conf"
    /\ LET rid == sub[p].rid
           new_report == reports[rid]
           category == classification_category(new_report)
           similar == find_similar_reports_by_locality(reports, category,
                          new_report.locality, new_report.created_at, rid)
           total_similar == Cardinality(similar) + 1
       IN  sub' = [sub EXCEPT ![p] =
               IF fail = "get" \/ ~Truthy(new_report.locality)
               THEN [@ EXCEPT !.pc = "prio",
                              !.failed = IF fail = "get"
                                         THEN @ \cup {"confidence"} ELSE @]
               ELSE IF Len(new_report.media_urls) > 0
               THEN [@ EXCEPT !.pc = "conf_self", !.label = "HIGH"]
               ELSE IF category \in {"Unclassified", "General", ""}
               THEN [@ EXCEPT !.pc = "conf_self", !.label = "LOW"]
               ELSE IF fail = "query"
               THEN [@ EXCEPT !.pc = "prio", !.failed = @ \cup {"confidence"}]
               ELSE [@ EXCEPT !.pc = "conf_self",
                              !.label = label_for_total(total_similar),
                              !.total = total_similar,
                              !.peers = [i \in 1..Cardinality(similar) |->
                                  [id |-> SortedSeq(similar)[i],
                                   confidence |->
                                       reports[SortedSeq(similar)[i]].confidence]]]]
    /\ UNCHANGED <<reports, issues, clock, rev, agg>>

\* _update_confidence on the new report; a failed update is swallowed
SubmitConfidenceSelf(p, fail) ==
    /\ sub[p].pc = "conf_self"
    /\ reports' = IF fail
                  THEN store_after_engine_failure(reports, sub[p].rid)
                  ELSE update_confidence(reports, sub[p].rid, sub[p].label)
    /\ sub' = [sub EXCEPT ![p].pc = IF sub[p].peers = <<>> THEN "prio"
                                                           ELSE "conf_peer",
                          ![p].failed = IF fail THEN @ \cup {"confidence"} ELSE @]
    /\ UNCHANGED <<issues, clock, rev, agg>>

\* the upgrade loop over the matched peers, one peer per step
SubmitConfidencePeer(p, fail) ==
    /\ sub[p].pc = "conf_peer"
    /\ LET peer == Head(sub[p].peers)
       IN  reports' =
               IF ~peer_is_rewritten(sub[p].label, peer.confidence)
               THEN reports
               ELSE IF fail
                    THEN store_after_engine_failure(reports, sub[p].rid)
                    ELSE update_confidence(reports, peer.id, sub[p].label)
    /\ sub' = [sub EXCEPT ![p].peers = Tail(@),
                          ![p].pc = IF Len(sub[p].peers) = 1 THEN "prio"
                                                             ELSE "conf_peer",
                          ![p].failed =
                              IF fail /\ peer_is_rewritten(sub[p].label,
                                             Head(sub[p].peers).confidence)
                              THEN @ \cup {"confidence"} ELSE @]
    /\ UNCHANGED <<issues, clock, rev, agg>>

\* lines 207-228: the document is read again, calculate_priority, the update.
\* fail: "none", "get", "calc" (calculate_priority's own except returns its
\* fallback score) or "update".
SubmitPriority(p, fail) ==
    /\ sub[p].pc = "prio"
    /\ LET rid == sub[p].rid
           updated_data == reports[rid]
           score == IF fail = "calc"
                    THEN PRIORITY_FALLBACK_SCORE
                    ELSE calculate_priority(reports, updated_data, rid, clock)
       IN  IF fail \in {"get", "update"}
           THEN /\ reports' = store_after_engine_failure(reports, rid)
                /\ sub' = [sub EXCEPT ![p].pc = "final",
                                      ![p].failed = @ \cup {"priority"}]
           ELSE /\ reports' = [reports EXCEPT ![rid].priority_score = score]
                /\ sub' = [sub EXCEPT
                             ![p].pc = "esc",
                             ![p].snap = <<[updated_data EXCEPT
                                              !.priority_score = score]>>,
                             ![p].failed = IF fail = "calc"
                                           THEN @ \cup {"priority"} ELSE @]
    /\ UNCHANGED <<issues, clock, rev, agg>>

\* lines 230-241: evaluate_escalation on the snapshot, update_escalation_flag.
\* fail: "none", "eval" (evaluate_escalation's own except returns no
\* escalation) or "update" (update_escalation_flag raises).
SubmitEscalation(p, fail) ==
    /\ sub[p].pc = "esc"
    /\ LET rid == sub[p].rid
           result == evaluate_escalation(reports, sub[p].snap[1], rid, clock)
       IN  reports' =
               IF fail = "none" /\ result.escalation_flag
               THEN [reports EXCEPT ![rid] =
                        update_escalation_flag(@, TRUE, result.escalation_reason,
                                               "system", clock)]
               ELSE store_after_engine_failure(reports, rid)
    /\ sub' = [sub EXCEPT ![p].pc = "final", ![p].snap = <<>>,
                          ![p].failed = IF fail # "none"
                                        THEN @ \cup {"escalation"} ELSE @]
    /\ UNCHANGED <<issues, clock, rev, agg>>

\* lines 250-279: the final read and the response
SubmitReturn(p, fail) ==
    /\ sub[p].pc = "final"
    /\ sub' = [sub EXCEPT ![p] =
            [SubmitterReady EXCEPT
                !.rid = sub[p].rid,
                !.out = IF fail THEN "error" ELSE "created",
                !.failed = IF fail THEN sub[p].failed \cup {"final_read"}
                                   ELSE sub[p].failed]]
    /\ UNCHANGED <<reports, issues, clock, rev, agg>>

(***************************************************************************)
(* The status workflow under overlapping reviewers: one report is          *)
(* submitted, two reviewers send update_status requests for it.            *)
(***************************************************************************)
StatusInput ==
    [description |-> <<"Water", "Leak">>, issue_type |-> "Water",
     city |-> "Pune", locality |-> "Kothrud, Pune", latitude |-> 100,
     longitude |-> 100, ip_address |-> "10.0.0.1", media_urls |-> <<>>]

RequestedStatuses == ReportStatus \cup {"REOPENED"}

NextStatus ==
    \/ SubmitRateLimit("s1", StatusInput, FALSE, MaxStatusReports)
    \/ SubmitDuplicate("s1", FALSE)
    \/ SubmitPersist("s1", FALSE)
    \/ SubmitAI("s1", "disabled")
    \/ SubmitConfidenceRead("s1", "none")
    \/ SubmitConfidenceSelf("s1", FALSE)
    \/ SubmitPriority("s1", "none")
    \/ SubmitEscalation("s1", "none")
    \/ SubmitReturn("s1", FALSE)
    \/ \E v \in Reviewers, report_id \in 1..(MaxStatusReports + 1),
          new_status \in RequestedStatuses :
          UpdateStatusRead(v, report_id, new_status, NoneStr)
    \/ \E v \in Reviewers : UpdateStatusWrite(v)

SpecStatus == InitStore /\ [][NextStatus]_vars

StatusRank(s) ==
    CASE s = "UNDER_REVIEW" -> 0
      [] s = "VERIFIED" -> 1
      [] s = "ACTION_TAKEN" -> 2
      [] s = "CLOSED" -> 3
      [] OTHER -> -1

\* The lifecycle as the specification states it
ImmediateSuccessors(s) ==
    CASE s = "UNDER_REVIEW" -> <<"VERIFIED">>
      [] s = "VERIFIED" -> <<"ACTION_TAKEN">>
      [] s = "ACTION_TAKEN" -> <<"CLOSED">>
      [] OTHER -> <<>>

\* C1: under any interleaving of update_status requests, the stored status of
\* a report either stays where it is or advances to its immediate successor;
\* it never skips a state and never moves backward.
C1_StatusStaysOrAdvancesByOne ==
    [][\A i \in Ids(reports) :
          \/ reports'[i].status = reports[i].status
          \/ StatusRank(reports'[i].status) = StatusRank(reports[i].status) + 1]_vars

\* A request decided in this step by reviewer v
Decided(v) ==
    /\ rev[v].pc = "ready"
    /\ rev'[v] # rev[v]
    /\ rev'[v].op = "update_status"
    /\ rev'[v].rid \in Ids(reports)

\* C2: an update_status request is accepted exactly when the requested status
\* is the report's current status or its immediate successor; any other
\* request is rejected with exactly the allowed next states of the current
\* status, and the rejection leaves the stored report unchanged.
C2_AcceptedExactlyWhenAllowed ==
    [][\A v \in Reviewers :
          Decided(v) =>
              LET current == reports[rev'[v].rid].status
                  permitted ==
                      \/ rev'[v].req = current
                      \/ rev'[v].req \in SeqRange(ImmediateSuccessors(current))
              IN  /\ permitted <=> rev'[v].pc = "validated"
                  /\ ~permitted <=> rev'[v].out = "invalid"
                  /\ ~permitted =>
                         /\ rev'[v].allowed = ImmediateSuccessors(current)
                         /\ rev'[v].pc = "ready"
                         /\ reports' = reports]_vars

C2_Witness ==
    \E v \in Reviewers :
        /\ rev[v].out = "invalid"
        /\ rev[v].req = "ACTION_TAKEN"
        /\ rev[v].allowed = <<"VERIFIED">>
        /\ \E w \in Reviewers :
              /\ rev[w].out = "invalid"
              /\ rev[w].req = "VERIFIED"
              /\ reports[rev[w].rid].status = "CLOSED"
              /\ rev[w].allowed = <<>>

\* C3: a request for the status the report already has succeeds and is a
\* no-op: the status stays and no history record is appended.
C3_SameStatusIsNoOp ==
    [][\A v \in Reviewers :
          (/\ rev[v].pc = "validated"
           /\ rev[v].op = "update_status"
           /\ rev'[v].out = "ok"
           /\ rev[v].req = reports[rev[v].rid].status)
          => /\ reports'[rev[v].rid].status = reports[rev[v].rid].status
             /\ reports'[rev[v].rid].status_history
                    = reports[rev[v].rid].status_history]_vars

IsPrefix(q, r) == Len(q) <= Len(r) /\ SubSeq(r, 1, Len(q)) = q

\* C4: status_history starts with the creation record (to UNDER_REVIEW, by
\* system), is append-only, grows by exactly one record with every accepted
\* transition, and its last record's `to` is the current status, also when
\* reviewers overlap.
C4_HistoryAppendOnly ==
    [][\A i \in Ids(reports) :
          LET old == reports[i].status_history
              new == reports'[i].status_history
          IN  /\ new[1].to = "UNDER_REVIEW" /\ new[1].changed_by = "system"
              /\ IsPrefix(old, new)
              /\ new # old => Len(new) = Len(old) + 1
              /\ new[Len(new)].to = reports'[i].status]_vars

(***************************************************************************)
(* The ingestion gate: one client after another submits reports from one   *)
(* address or with a blank one, the store reads of the gate may raise.     *)
(***************************************************************************)
GateInputs ==
    {[description |-> <<"Water", "Leak">>, issue_type |-> "Water",
      city |-> "Pune", locality |-> loc, latitude |-> 100, longitude |-> 100,
      ip_address |-> "10.0.0.1", media_urls |-> <<>>] :
          loc \in {"Kothrud, Pune", "MG Road"}}
    \cup
    {[description |-> <<"Pothole">>, issue_type |-> "Roadblock",
      city |-> "Pune", locality |-> "MG Road", latitude |-> 900,
      longitude |-> 900, ip_address |-> ip, media_urls |-> <<>>] :
          ip \in {" "}}

NextGate ==
    \/ Tick(GateTick, MaxGateClock)
    \/ \E inp \in GateInputs, fail \in BOOLEAN :
          SubmitRateLimit("s1", inp, fail, MaxGateReports)
    \/ \E fail \in BOOLEAN : SubmitDuplicate("s1", fail)
    \/ SubmitPersist("s1", FALSE)
    \/ SubmitAI("s1", "disabled")
    \/ SubmitConfidenceRead("s1", "none")
    \/ SubmitConfidenceSelf("s1", FALSE)
    \/ SubmitPriority("s1", "none")
    \/ SubmitEscalation("s1", "none")
    \/ SubmitReturn("s1", FALSE)

SpecGate == InitStore /\ [][NextGate]_vars

\* Persisted reports of the same hashed address created in the trailing hour
SameAddressInTrailingHour(ip_address) ==
    {i \in Ids(reports) :
        /\ reports[i].ip_address_hash = hash_ip_address(ip_address)
        /\ clock - reports[i].created_at <= MinutesPerHour}

\* The rate-limit check of submitter p is decided in this step, its read succeeding
RateLimitDecided(p) ==
    /\ sub[p].pc = "ready"
    /\ sub'[p] # sub[p]
    /\ "rate_limit_read" \notin sub'[p].failed

\* C5: a submission is rejected by the rate limit exactly when the store
\* already holds at least 5 persisted reports with the same hashed IP created
\* in the trailing hour (so the fifth is accepted and the sixth rejected), and
\* a rejected submission writes no report.
C5_RateLimitedExactlyAtFive ==
    [][\A p \in Submitters :
          RateLimitDecided(p) =>
              LET same == SameAddressInTrailingHour(sub'[p].inp.ip_address)
                  hashed == hash_ip_address(sub'[p].inp.ip_address) # NoneStr
              IN  /\ sub'[p].out = "rate_limited"
                        <=> (hashed /\ Cardinality(same) >= 5)
                  /\ sub'[p].out # "rate_limited" => sub'[p].pc = "dup"
                  /\ sub'[p].out = "rate_limited" =>
                         sub'[p].pc = "ready" /\ reports' = reports]_vars

C5_Witness ==
    /\ sub["s1"].out = "rate_limited"
    /\ sub["s1"].pc = "ready"
    /\ Cardinality(SameAddressInTrailingHour(sub["s1"].inp.ip_address)) = 5

\* C6: when the store read of check_rate_limit or check_duplicate raises, the
\* gate fails open: the check counts as passed and the submission goes on.
C6_GateFailsOpen ==
    [][\A p \in Submitters :
          /\ (sub[p].pc = "ready" /\ "rate_limit_read" \in sub'[p].failed)
                 => (sub'[p].pc = "dup" /\ sub'[p].out # "error")
          /\ (sub[p].pc = "dup" /\ "duplicate_read" \in sub'[p].failed)
                 => (sub'[p].pc = "persist" /\ sub'[p].out # "error")]_vars

(***************************************************************************)
(* create_report with failing engines: every step after the write may      *)
(* raise, the provider may answer or raise.                                *)
(***************************************************************************)
FailureInputs ==
    {[description |-> <<"Water", "Leak">>, issue_type |-> "Water",
      city |-> "Pune", locality |-> "Kothrud, Pune", latitude |-> 100,
      longitude |-> 100, ip_address |-> "10.0.0.1", media_urls |-> <<>>],
     [description |-> <<"Pothole">>, issue_type |-> "Safety",
      city |-> NoneStr, locality |-> "Kothrud, Pune", latitude |-> 900,
      longitude |-> 900, ip_address |-> "10.0.0.2", media_urls |-> <<>>]}

NextFailures ==
    \/ \E inp \in FailureInputs :
          SubmitRateLimit("s1", inp, FALSE, MaxFailureReports)
    \/ SubmitDuplicate("s1", FALSE)
    \/ \E fail \in BOOLEAN : SubmitPersist("s1", fail)
    \/ \E ai \in {"Water & Sanitation"} \cup AIFailures : SubmitAI("s1", ai)
    \/ \E fail \in {"none", "get", "query"} : SubmitConfidenceRead("s1", fail)
    \/ \E fail \in BOOLEAN : SubmitConfidenceSelf("s1", fail)
    \/ \E fail \in BOOLEAN : SubmitConfidencePeer("s1", fail)
    \/ \E fail \in {"none", "get", "calc", "update"} : SubmitPriority("s1", fail)
    \/ \E fail \in {"none", "eval", "update"} : SubmitEscalation("s1", fail)
    \/ \E fail \in BOOLEAN : SubmitReturn("s1", fail)

SpecFailures == InitStore /\ [][NextFailures]_vars

EngineSteps == {"ai", "conf", "conf_self", "conf_peer", "prio", "esc"}

\* What the submission itself wrote
Persisted(r) ==
    <<r.description, r.issue_type, r.city, r.locality, r.latitude, r.longitude,
      r.ip_address_hash, r.media_urls, r.created_at, r.status, r.status_history>>

\* C7: once create_report has persisted the report, a failure in the AI
\* step, the confidence engine, priority scoring or escalation never deletes
\* or rolls back the report and never makes the submission fail: the
\* pipeline goes on, the report stays in the store as it was written and the
\* submission answers with the created report.
C7_EngineFailureKeepsReport ==
    [][/\ \A i \in Ids(reports) :
             /\ i \in Ids(reports')
             /\ Persisted(reports'[i]) = Persisted(reports[i])
       /\ \A p \in Submitters :
             /\ (sub[p].pc \in EngineSteps /\ sub'[p] # sub[p])
                    => /\ sub'[p].pc \in EngineSteps \cup {"final"}
                       /\ sub'[p].out # "error"
                       /\ sub'[p].rid = sub[p].rid
                       /\ sub'[p].rid \in Ids(reports')
             /\ (sub[p].pc = "final" /\ sub'[p].pc = "ready"
                    /\ "final_read" \notin sub'[p].failed)
                    => /\ sub'[p].out = "created"
                       /\ sub'[p].rid \in Ids(reports')]_vars

C7_Witness ==
    /\ sub["s1"].pc = "ready"
    /\ sub["s1"].out = "created"
    /\ {"ai", "confidence", "priority", "escalation"} \subseteq sub["s1"].failed
    /\ sub["s1"].rid \in Ids(reports)
    /\ reports[sub["s1"].rid].status = "UNDER_REVIEW"

(***************************************************************************)
(* The report confidence engine, one submission after another: reports of  *)
(* one locality with and without media, classified by the provider or not. *)
(***************************************************************************)
ConfidenceInputs ==
    {[description |-> <<"Water", "Leak">>, issue_type |-> "Water",
      city |-> "Pune", locality |-> "Kothrud, Pune", latitude |-> 100,
      longitude |-> 100, ip_address |-> "10.0.0.1", media_urls |-> <<>>],
     [description |-> <<"Pothole">>, issue_type |-> "",
      city |-> "Pune", locality |-> "Kothrud, Pune", latitude |-> 900,
      longitude |-> 900, ip_address |-> "10.0.0.2", media_urls |-> <<>>],
     [description |-> <<"Garbage">>, issue_type |-> "Water",
      city |-> "Pune", locality |-> "Kothrud, Pune", latitude |-> 2000,
      longitude |-> 2000, ip_address |-> " ",
      media_urls |-> <<"photo.jpg">>]}

ProviderAnswers == {"disabled", "Water & Sanitation", "General"}

NextConfidence ==
    \/ Tick(ConfidenceTick, MaxConfidenceClock)
    \/ \E inp \in ConfidenceInputs :
          SubmitRateLimit("s1", inp, FALSE, MaxConfidenceReports)
    \/ SubmitDuplicate("s1", FALSE)
    \/ SubmitPersist("s1", FALSE)
    \/ \E ai \in ProviderAnswers : SubmitAI("s1", ai)
    \/ SubmitConfidenceRead("s1", "none")
    \/ SubmitConfidenceSelf("s1", FALSE)
    \/ SubmitConfidencePeer("s1", FALSE)
    \/ SubmitPriority("s1", "none")
    \/ SubmitEscalation("s1", "none")
    \/ SubmitReturn("s1", FALSE)

SpecConfidence == InitStore /\ [][NextConfidence]_vars

LabelOfTotal(total) ==
    IF total >= 4 THEN "HIGH" ELSE IF total >= 2 THEN "MEDIUM" ELSE "LOW"

\* The category as the specification states it: the AI category if present,
\* else the user-selected issue type
StatedCategory(r) ==
    IF Truthy(r.ai_metadata.ai_classified_category)
    THEN r.ai_metadata.ai_classified_category
    ELSE r.issue_type

StatedLabel(store, id) ==
    LET r == store[id]
        peers == {i \in Ids(store) \ {id} :
                     /\ StatedCategory(store[i]) = StatedCategory(r)
                     /\ store[i].locality = r.locality
                     /\ store[i].created_at >= r.created_at - 30
                     /\ store[i].created_at <= r.created_at}
    IN  IF Len(r.media_urls) > 0
        THEN "HIGH"
        ELSE IF StatedCategory(r) \in {"", "Unclassified"}
             THEN "LOW"
             ELSE LabelOfTotal(1 + Cardinality(peers))

\* The label by the AI category alone
AICategoryLabel(store, id) ==
    LET r == store[id]
        category == r.ai_metadata.ai_classified_category
        peers == {i \in Ids(store) \ {id} :
                     /\ store[i].ai_metadata.ai_classified_category = category
                     /\ store[i].locality = r.locality
                     /\ store[i].created_at >= r.created_at - 30}
    IN  IF Len(r.media_urls) > 0
        THEN "HIGH"
        ELSE IF category \in {"", "Unclassified", "General"}
             THEN "LOW"
             ELSE LabelOfTotal(1 + Cardinality(peers))

\* The confidence engine writes the label of submitter p's report in this step
LabelWritten(p) ==
    /\ sub[p].pc = "conf_self"
    /\ sub'[p].pc # "conf_self"

RaceInputs ==
    {[description |-> <<"Water", "Leak">>, issue_type |-> "Water",
      city |-> "Pune", locality |-> "Kothrud, Pune", latitude |-> 100,
      longitude |-> 100, ip_address |-> "10.0.0.1", media_urls |-> <<>>],
     [description |-> <<"Pothole">>, issue_type |-> "Water",
      city |-> "Pune", locality |-> "Kothrud, Pune", latitude |-> 900,
      longitude |-> 900, ip_address |-> "10.0.0.2", media_urls |-> <<>>]}

NextRace ==
    \/ \E p \in Submitters, inp \in RaceInputs :
          SubmitRateLimit(p, inp, FALSE, MaxRaceReports)
    \/ \E p \in Submitters : SubmitDuplicate(p, FALSE)
    \/ \E p \in Submitters : SubmitPersist(p, FALSE)
    \/ \E p \in Submitters : SubmitAI(p, "Water & Sanitation")
    \/ \E p \in Submitters : SubmitConfidenceRead(p, "none")
    \/ \E p \in Submitters : SubmitConfidenceSelf(p, FALSE)
    \/ \E p \in Submitters : SubmitConfidencePeer(p, FALSE)
    \/ \E p \in Submitters : SubmitPriority(p, "none")
    \/ \E p \in Submitters : SubmitEscalation(p, "none")
    \/ \E p \in Submitters : SubmitReturn(p, FALSE)
    \/ \E report_id \in 1..MaxRaceReports : UpgradeConfidenceRead("rv1", report_id)
    \/ UpgradeConfidenceWrite("rv1")

SpecRace == InitStore /\ [][NextRace]_vars

\* C9: in any interleaving of create_report pipelines and reviewer upgrades
\* to HIGH, the stored confidence label of a report never goes down in the
\* order LOW < MEDIUM < HIGH, and a peer is rewritten only when its stored
\* label is lower than the new one.
C9_ConfidenceNeverGoesDown ==
    [][\A i \in Ids(reports) :
          ConfRank(reports'[i].confidence) >= ConfRank(reports[i].confidence)]_vars

(***************************************************************************)
(* issue_aggregation_service.py.  A report is named by its id, its fields  *)
(* are read from the store it was streamed from: the fields clustering     *)
(* reads besides status and issue_id are never rewritten after creation.   *)
(***************************************************************************)
MIN_REPORTS_FOR_ISSUE == 5
PROXIMITY_METERS == 500
TIME_WINDOW_HOURS == 2
POOL_WINDOW_HOURS == 24
VALID_STATUSES == {"UNDER_REVIEW", "VERIFIED"}

RECURSIVE GCD(_, _)
GCD(a, b) == IF b = 0 THEN a ELSE GCD(b, a % b)

RECURSIVE SeqSum(_)
SeqSum(s) == IF s = <<>> THEN 0 ELSE Head(s) + SeqSum(Tail(s))

SeqToSet(s) == {s[k] : k \in 1..Len(s)}

\* A float pair (lat / den, lon / den), kept exact and in lowest terms so
\* that equal pairs are equal records
Point(lat, lon, den) ==
    LET g == GCD(GCD(Abs(lat), Abs(lon)), den)
    IN  [lat |-> lat \div g, lon |-> lon \div g, den |-> den \div g]

\* _haversine_meters(p, q) <= meters, on the squares and cleared of fractions
point_within(p, q, meters) ==
    LET dlat == p.lat * q.den - q.lat * p.den
        dlon == p.lon * q.den - q.lon * p.den
    IN  dlat * dlat + dlon * dlon
            <= meters * meters * p.den * p.den * q.den * q.den

\* r.get("latitude") or 0.0
coordinate_or_zero(x) == IF x = None THEN 0 ELSE x

\* _calculate_centroid: the mean of the coordinates of the listed reports
calculate_centroid(store, ids) ==
    IF ids = <<>>
    THEN Point(0, 0, 1)
    ELSE Point(SeqSum([k \in 1..Len(ids) |->
                          coordinate_or_zero(store[ids[k]].latitude)]),
               SeqSum([k \in 1..Len(ids) |->
                          coordinate_or_zero(store[ids[k]].longitude)]),
               Len(ids))

\* The guard on a centroid: None and NaN cannot come out of the mean of
\* numbers, which leaves centroid_lat == 0.0 and centroid_lon == 0.0
centroid_rejected(c) == c.lat = 0 /\ c.lon = 0

\* _get_dominant_locality: max() keeps the first locality that reaches the
\* highest count, in the order the localities were first met
get_dominant_locality(store, ids) ==
    LET named == SelectSeq(ids, LAMBDA i : Truthy(StripStr(store[i].locality)))
        count(l) == Cardinality({k \in 1..Len(named) :
                                    StripStr(store[named[k]].locality) = l})
        first(l) == CHOOSE k \in 1..Len(named) :
                        /\ StripStr(store[named[k]].locality) = l
                        /\ \A j \in 1..(k - 1) : StripStr(store[named[j]].locality) # l
        localities == {StripStr(store[named[k]].locality) : k \in 1..Len(named)}
    IN  IF named = <<>>
        THEN ""
        ELSE CHOOSE l \in localities :
                 \A m \in localities :
                     \/ count(l) > count(m)
                     \/ count(l) = count(m) /\ first(l) <= first(m)

\* _cluster_reports: the reports within PROXIMITY_METERS and TIME_WINDOW_HOURS
\* of the reference report, in the order given
cluster_reports(store, ids, reference_lat, reference_lon, reference_time) ==
    SelectSeq(ids, LAMBDA i :
        /\ store[i].latitude # None
        /\ store[i].longitude # None
        /\ haversine_within(reference_lat, reference_lon, store[i].latitude,
                            store[i].longitude, PROXIMITY_METERS)
        /\ Abs(store[i].created_at - reference_time)
               <= TIME_WINDOW_HOURS * MinutesPerHour)

\* len(cluster) >= MIN_REPORTS_FOR_ISSUE
cluster_meets_minimum_strict(n) == n > MIN_REPORTS_FOR_ISSUE

cluster_meets_minimum(n) == n >= MIN_REPORTS_FOR_ISSUE

\* sorted(reports, key=created_at): a stable sort of the stream.  Documents
\* written at different instants stream in the order they were written.
RECURSIVE sort_by_created_at(_, _)
sort_by_created_at(store, S) ==
    IF S = {}
    THEN <<>>
    ELSE LET m == CHOOSE i \in S : \A j \in S :
                      \/ store[i].created_at < store[j].created_at
                      \/ store[i].created_at = store[j].created_at /\ i <= j
         IN  <<m>> \o sort_by_created_at(store, S \ {m})

\* The loop of _find_eligible_clusters from position k of sorted_reports on
RECURSIVE find_clusters_from(_, _, _, _)
find_clusters_from(store, sorted_reports, k, processed_report_ids) ==
    IF k > Len(sorted_reports)
    THEN <<>>
    ELSE LET id == sorted_reports[k]
             report == store[id]
             cluster ==
                 SelectSeq(cluster_reports(store, sorted_reports, report.latitude,
                                           report.longitude, report.created_at),
                           LAMBDA i :
                               /\ store[i].issue_type = report.issue_type
                               /\ normalize_city_name(store[i].city)
                                      = normalize_city_name(report.city)
                               /\ store[i].status \in VALID_STATUSES
                               /\ store[i].issue_id = None)
         IN  IF \/ id \in processed_report_ids
                \/ report.issue_id # None
                \/ report.status \notin VALID_STATUSES
                \/ report.latitude = None
                \/ report.longitude = None
             THEN find_clusters_from(store, sorted_reports, k + 1,
                                     processed_report_ids)
             ELSE IF cluster_meets_minimum(Len(cluster))
                  THEN <<cluster>> \o
                       find_clusters_from(store, sorted_reports, k + 1,
                                          processed_report_ids \cup SeqToSet(cluster))
                  ELSE find_clusters_from(store, sorted_reports, k + 1,
                                          processed_report_ids)

\* _find_eligible_clusters over all_reports, the stream in document order
find_eligible_clusters(store, all_reports) ==
    find_clusters_from(store, sort_by_created_at(store, SeqToSet(all_reports)),
                       1, {})

\* _find_existing_issue: the first ACTIVE issue of the city and issue type,
\* in document order, whose centre is within PROXIMITY_METERS of the point
find_existing_issue(issue_store, issue_type, city, centroid) ==
    LET matching == {j \in Ids(issue_store) :
                        /\ issue_store[j].city = normalize_city_name(city)
                        /\ issue_store[j].issue_type = issue_type
                        /\ issue_store[j].status = "ACTIVE"
                        /\ point_within(centroid, issue_store[j].centroid,
                                        PROXIMITY_METERS)}
    IN  IF matching = {}
        THEN None
        ELSE CHOOSE j \in matching : \A m \in matching : j <= m

\* min(created_times) of the cluster
earliest_time(store, cluster) ==
    CHOOSE t \in {store[i].created_at : i \in SeqToSet(cluster)} :
        \A i \in SeqToSet(cluster) : t <= store[i].created_at

\* issue_data of create_or_update_issue_from_cluster.  centroid holds the
\* latitude and longitude fields, report_ids the list as a set: the order
\* list(set(...)) gives the ids is not part of the model.  Scores are in
\* hundredths.
new_issue_data(store, cluster, centroid, now) ==
    [issue_type |-> store[cluster[1]].issue_type,
     city |-> normalize_city_name(store[cluster[1]].city),
     locality |-> get_dominant_locality(store, cluster),
     centroid |-> centroid,
     report_count |-> Len(cluster),
     report_ids |-> SeqToSet(cluster),
     confidence |-> "LOW",
     confidence_score |-> 20,
     confidence_reason |-> <<"created">>,
     status |-> "ACTIVE",
     created_at |-> earliest_time(store, cluster),
     updated_at |-> now,
     confidence_timeline |->
         <<[timestamp |-> now, previous_confidence |-> NoneStr,
            previous_confidence_score |-> None, new_confidence |-> "LOW",
            confidence_score |-> 20, reason |-> <<"created">>]>>]

(***************************************************************************)
(* issue_confidence_engine.py, scores in hundredths                        *)
(***************************************************************************)
SCORE_INCREMENT_ADDITIONAL_REPORTS == 20
SCORE_INCREMENT_UNIQUE_REPORTERS == 15
SCORE_INCREMENT_TIME_PERSISTENCE == 15
SCORE_INCREMENT_MEDIA_PRESENT == 10
INITIAL_CONFIDENCE_SCORE == 20
MAX_CONFIDENCE_SCORE == 100
CONFIDENCE_LOW_THRESHOLD == 40
CONFIDENCE_MEDIUM_THRESHOLD == 70
ADDITIONAL_REPORTS_NEEDED == 3
PERSISTENCE_HOURS == 2

score_to_confidence_label(score) ==
    IF score < CONFIDENCE_LOW_THRESHOLD
    THEN "LOW"
    ELSE IF score < CONFIDENCE_MEDIUM_THRESHOLD THEN "MEDIUM" ELSE "HIGH"

\* The reasons _calculate_confidence_score collects, in its order
confidence_reasons(issue_data, linked, now) ==
    LET unique_ips == {linked[k].ip_address_hash : k \in 1..Len(linked)}
                          \ {NoneStr, ""}
    IN  (IF Len(linked) - issue_data.report_count >= ADDITIONAL_REPORTS_NEEDED
         THEN <<"additional_reports">> ELSE <<>>)
        \o (IF Cardinality(unique_ips) > 1
            THEN <<"unique_reporters">> ELSE <<>>)
        \o (IF now - issue_data.created_at > PERSISTENCE_HOURS * MinutesPerHour
            THEN <<"persisted">> ELSE <<>>)
        \o (IF \E k \in 1..Len(linked) : Len(linked[k].media_urls) > 0
            THEN <<"media">> ELSE <<>>)

reason_increment(reason) ==
    CASE reason = "additional_reports" -> SCORE_INCREMENT_ADDITIONAL_REPORTS
      [] reason = "unique_reporters" -> SCORE_INCREMENT_UNIQUE_REPORTERS
      [] reason = "persisted" -> SCORE_INCREMENT_TIME_PERSISTENCE
      [] reason = "media" -> SCORE_INCREMENT_MEDIA_PRESENT
      [] OTHER -> 0

calculate_confidence_score(issue_data, linked, now) ==
    LET reasons == confidence_reasons(issue_data, linked, now)
    IN  [score |-> Min2(INITIAL_CONFIDENCE_SCORE
                            + SeqSum([k \in 1..Len(reasons) |->
                                         reason_increment(reasons[k])]),
                        MAX_CONFIDENCE_SCORE),
         reason |-> IF reasons = <<>> THEN <<"created">> ELSE reasons]

\* recalculate_issue_confidence: the issue as its one update leaves it
recalculate_issue_confidence(issue_store, store, issue_id, now) ==
    LET issue_data == issue_store[issue_id]
        linked == [k \in 1..Cardinality(issue_data.report_ids) |->
                      store[SortedSeq(issue_data.report_ids)[k]]]
        calc == calculate_confidence_score(issue_data, linked, now)
        new_confidence == score_to_confidence_label(calc.score)
        confidence_changed == \/ calc.score # issue_data.confidence_score
                              \/ new_confidence # issue_data.confidence
        timeline_entry ==
            [timestamp |-> now,
             previous_confidence |-> issue_data.confidence,
             previous_confidence_score |-> issue_data.confidence_score,
             new_confidence |-> new_confidence,
             confidence_score |-> calc.score,
             reason |-> calc.reason]
    IN  IF issue_data.report_ids = {}
        THEN issue_store
        ELSE [issue_store EXCEPT ![issue_id] =
                 [issue_data EXCEPT
                     !.confidence = new_confidence,
                     !.confidence_score = calc.score,
                     !.confidence_reason = calc.reason,
                     !.confidence_timeline =
                         IF confidence_changed
                         THEN Append(@, timeline_entry) ELSE @,
                     !.updated_at = now,
                     !.report_count = Len(linked)]]

(***************************************************************************)
(* attempt_issue_aggregation, one action per store operation.  The run     *)
(* streams the reports once; every later step works on that list while the *)
(* store moves on.                                                         *)
(***************************************************************************)
\* The loop head: the next cluster, then the next unlinked report, then return
agg_continue(run) ==
    [run EXCEPT !.pc = IF run.clusters # <<>> THEN "cluster"
                       ELSE IF run.todo # <<>> THEN "join" ELSE "return",
                !.cluster = <<>>, !.existing_issue_id = None,
                !.issue_id = None, !.links = <<>>, !.update_data = <<>>]

\* lines 551-598: the reports the stream keeps, in document order
eligible_reports(store, now) ==
    SelectSeq([k \in 1..Len(store) |-> k], LAMBDA i :
        /\ store[i].status \in VALID_STATUSES
        /\ store[i].latitude # None
        /\ store[i].longitude # None
        /\ Truthy(store[i].issue_type)
        /\ normalize_city_name(store[i].city) # "UNKNOWN"
        /\ store[i].created_at >= now - POOL_WINDOW_HOURS * MinutesPerHour)

\* lines 549-613: stream the reports, find the clusters, list the unlinked
AggStart(a) ==
    /\ agg[a].pc = "ready"
    /\ LET all_reports == eligible_reports(reports, clock)
           unlinked_reports ==
               SelectSeq(all_reports, LAMBDA i : reports[i].issue_id = None)
       IN  agg' = [agg EXCEPT ![a] = agg_continue(
               [AggregatorReady EXCEPT
                   !.all_reports = all_reports,
                   !.clusters = find_eligible_clusters(reports, all_reports),
                   !.unlinked_reports = unlinked_reports,
                   !.todo = unlinked_reports])]
    /\ UNCHANGED <<reports, issues, clock, rev, sub>>

\* create_or_update_issue_from_cluster, lines 280-322: the guards and the
\* query of _find_existing_issue
AggCluster(a) ==
    /\ agg[a].pc = "cluster"
    /\ LET cluster == Head(agg[a].clusters)
           issue_type == reports[cluster[1]].issue_type
           city == normalize_city_name(reports[cluster[1]].city)
           centroid == calculate_centroid(reports, cluster)
       IN  agg' = [agg EXCEPT ![a] =
               IF \/ Len(cluster) < MIN_REPORTS_FOR_ISSUE
                  \/ ~Truthy(issue_type)
                  \/ city = "UNKNOWN"
                  \/ centroid_rejected(centroid)
               THEN agg_continue([@ EXCEPT !.clusters = Tail(@)])
               ELSE [@ EXCEPT !.pc = "issue",
                              !.cluster = cluster,
                              !.existing_issue_id =
                                  find_existing_issue(issues, issue_type, city,
                                                      centroid)]]
    /\ UNCHANGED <<reports, issues, clock, rev, sub>>

\* lines 326-377: the existing issue read and updated
merged_issue(issue_store, store, issue_id, all_reports, now) ==
    [issue_store EXCEPT ![issue_id] =
        [@ EXCEPT !.report_count = Cardinality(SeqToSet(all_reports)),
                  !.report_ids = SeqToSet(all_reports),
                  !.centroid = calculate_centroid(store, all_reports),
                  !.locality = get_dominant_locality(store, all_reports),
                  !.updated_at = now]]

\* The write of the issue document made in one transaction with a second
\* search: a run that finds at its write an issue its search had not seen
\* leaves the cluster to that issue
AggIssueWrite_search_again(a) ==
    /\ agg[a].pc = "issue"
    /\ LET cluster == agg[a].cluster
           existing_issue_id ==
               find_existing_issue(issues, reports[cluster[1]].issue_type,
                                   reports[cluster[1]].city,
                                   calculate_centroid(reports, cluster))
           existing_report_ids ==
               IF existing_issue_id = None
               THEN {} ELSE issues[existing_issue_id].report_ids
           all_reports ==
               cluster \o SortedSeq(existing_report_ids \ SeqToSet(cluster))
       IN  IF existing_issue_id = None
           THEN /\ issues' = Append(issues,
                        new_issue_data(reports, cluster,
                                       calculate_centroid(reports, cluster), clock))
                /\ agg' = [agg EXCEPT ![a] =
                       [@ EXCEPT !.pc = "link",
                                 !.issue_id = Len(issues) + 1,
                                 !.links = cluster]]
           ELSE IF \/ agg[a].existing_issue_id = None
                   \/ centroid_rejected(calculate_centroid(reports, all_reports))
                THEN /\ issues' = issues
                     /\ agg' = [agg EXCEPT ![a] = agg_continue(
                            [@ EXCEPT !.clusters = Tail(@),
                                      !.updated_issue_ids =
                                          Append(@, existing_issue_id)])]
                ELSE /\ issues' = merged_issue(issues, reports, existing_issue_id,
                                               all_reports, clock)
                     /\ agg' = [agg EXCEPT ![a] =
                            [@ EXCEPT
                                !.pc = IF SeqToSet(cluster) \subseteq existing_report_ids
                                       THEN "recalc" ELSE "link",
                                !.issue_id = existing_issue_id,
                                !.links = SortedSeq(SeqToSet(cluster)
                                                        \ existing_report_ids)]]
    /\ UNCHANGED <<reports, clock, rev, sub>>

\* lines 324-377 (an issue was found) or 424-465 (none was): the write of
\* the issue document
AggIssueWrite(a) ==
    /\ agg[a].pc = "issue"
    /\ LET cluster == agg[a].cluster
           existing_issue_id == agg[a].existing_issue_id
           existing_report_ids ==
               IF existing_issue_id = None
               THEN {} ELSE issues[existing_issue_id].report_ids
           all_reports ==
               cluster \o SortedSeq(existing_report_ids \ SeqToSet(cluster))
       IN  IF existing_issue_id = None
           THEN /\ issues' = Append(issues,
                        new_issue_data(reports, cluster,
                                       calculate_centroid(reports, cluster), clock))
                /\ agg' = [agg EXCEPT ![a] =
                       [@ EXCEPT !.pc = "link",
                                 !.issue_id = Len(issues) + 1,
                                 !.links = cluster]]
           ELSE IF centroid_rejected(calculate_centroid(reports, all_reports))
                THEN /\ issues' = issues
                     /\ agg' = [agg EXCEPT ![a] = agg_continue(
                            [@ EXCEPT !.clusters = Tail(@),
                                      !.updated_issue_ids =
                                          Append(@, existing_issue_id)])]
                ELSE /\ issues' = merged_issue(issues, reports, existing_issue_id,
                                               all_reports, clock)
                     /\ agg' = [agg EXCEPT ![a] =
                            [@ EXCEPT
                                !.pc = IF SeqToSet(cluster) \subseteq existing_report_ids
                                       THEN "recalc" ELSE "link",
                                !.issue_id = existing_issue_id,
                                !.links = SortedSeq(SeqToSet(cluster)
                                                        \ existing_report_ids)]]
    /\ UNCHANGED <<reports, clock, rev, sub>>

\* lines 380-384 and 468-473: one report is given the issue's id; a failed
\* update is printed and passed over
AggLink(a, fail) ==
    /\ agg[a].pc = "link"
    /\ reports' = IF fail
                  THEN reports
                  ELSE [reports EXCEPT ![Head(agg[a].links)].issue_id =
                                           agg[a].issue_id]
    /\ agg' = [agg EXCEPT ![a] =
           [@ EXCEPT !.links = Tail(@),
                     !.pc = IF Tail(agg[a].links) = <<>> THEN "recalc" ELSE "link"]]
    /\ UNCHANGED <<issues, clock, rev, sub>>

\* lines 387-388 and 476-477, and lines 606-609 of the caller
AggRecalc(a) ==
    /\ agg[a].pc = "recalc"
    /\ issues' = recalculate_issue_confidence(issues, reports, agg[a].issue_id,
                                              clock)
    /\ agg' = [agg EXCEPT ![a] = agg_continue(
           [@ EXCEPT !.clusters = Tail(@),
                     !.updated_issue_ids = Append(@, agg[a].issue_id)])]
    /\ UNCHANGED <<reports, clock, rev, sub>>

\* not all([lat, lon, ...]): None and 0.0 are both false
falsy_coordinate(x) == x = None \/ x = 0

\* lines 615-626: the next unlinked report of the list, and the issue near it
AggJoinFind(a) ==
    /\ agg[a].pc = "join"
    /\ LET report == reports[Head(agg[a].todo)]
           city == normalize_city_name(report.city)
           existing_issue_id ==
               find_existing_issue(issues, report.issue_type, city,
                                   Point(report.latitude, report.longitude, 1))
       IN  agg' = [agg EXCEPT ![a] =
               IF \/ falsy_coordinate(report.latitude)
                  \/ falsy_coordinate(report.longitude)
                  \/ ~Truthy(report.issue_type)
                  \/ city = "UNKNOWN"
               THEN agg_continue([@ EXCEPT !.todo = Tail(@)])
               ELSE IF existing_issue_id = None
                    THEN agg_continue([@ EXCEPT !.todo = Tail(@)])
                    ELSE [@ EXCEPT !.pc = "join_link",
                                   !.existing_issue_id = existing_issue_id]]
    /\ UNCHANGED <<reports, issues, clock, rev, sub>>

\* lines 628-631: the report is given the issue's id.  An update that raises
\* ends the work on this report (line 717).
AggJoinLink(a, fail) ==
    /\ agg[a].pc = "join_link"
    /\ reports' = IF fail
                  THEN reports
                  ELSE [reports EXCEPT ![Head(agg[a].todo)].issue_id =
                                           agg[a].existing_issue_id]
    /\ agg' = [agg EXCEPT ![a] =
           IF fail
           THEN agg_continue([@ EXCEPT !.todo = Tail(@)])
           ELSE [@ EXCEPT !.pc = "join_update"]]
    /\ UNCHANGED <<issues, clock, rev, sub>>

\* lines 634-677: the issue is read, the report added to its list, the
\* centre and locality computed again and the issue updated
AggJoinUpdate(a) ==
    /\ agg[a].pc = "join_update"
    /\ LET id == Head(agg[a].todo)
           existing_issue_id == agg[a].existing_issue_id
           all_reports_for_centroid ==
               <<id>> \o SortedSeq(issues[existing_issue_id].report_ids \ {id})
       IN  IF centroid_rejected(calculate_centroid(reports,
                                                   all_reports_for_centroid))
           THEN /\ issues' = issues
                /\ agg' = [agg EXCEPT ![a] =
                       agg_continue([@ EXCEPT !.todo = Tail(@)])]
           ELSE /\ issues' = merged_issue(issues, reports, existing_issue_id,
                                          all_reports_for_centroid, clock)
                /\ agg' = [agg EXCEPT ![a] =
                       [@ EXCEPT !.pc = "join_recalc",
                                 !.issue_id = existing_issue_id]]
    /\ UNCHANGED <<reports, clock, rev, sub>>

\* lines 680-715: the issue's confidence, and the id into the result
AggJoinRecalc(a) ==
    /\ agg[a].pc = "join_recalc"
    /\ issues' = recalculate_issue_confidence(issues, reports, agg[a].issue_id,
                                              clock)
    /\ agg' = [agg EXCEPT ![a] = agg_continue(
           [@ EXCEPT !.todo = Tail(@),
                     !.updated_issue_ids =
                         IF agg[a].issue_id \in SeqToSet(@)
                         THEN @ ELSE Append(@, agg[a].issue_id)])]
    /\ UNCHANGED <<reports, clock, rev, sub>>

\* line 721: the run returns the ids of the issues it wrote
AggReturn(a) ==
    /\ agg[a].pc = "return"
    /\ agg' = [agg EXCEPT ![a] =
           [AggregatorReady EXCEPT
               !.updated_issue_ids = agg[a].updated_issue_ids,
               !.out = "done"]]
    /\ UNCHANGED <<reports, issues, clock, rev, sub>>

(***************************************************************************)
(* Aggregation over a store the submission pipeline fills with reports of  *)
(* one issue type around one place, and one run of                         *)
(* attempt_issue_aggregation at a time.  The coordinates of the first five *)
(* inputs add up to (0, 0); with the sixth in place of any of them they do *)
(* not.                                                                    *)
(***************************************************************************)
AggregationInputs ==
    {[description |-> <<"Water">>, issue_type |-> "Water",
      city |-> "Pune", locality |-> "Kothrud, Pune", latitude |-> -120,
      longitude |-> -60, ip_address |-> "10.0.0.1", media_urls |-> <<>>],
     [description |-> <<"Leak">>, issue_type |-> "Water",
      city |-> "Pune", locality |-> "Kothrud, Pune", latitude |-> 120,
      longitude |-> 60, ip_address |-> "10.0.0.2", media_urls |-> <<>>],
     [description |-> <<"Pipe">>, issue_type |-> "Water",
      city |-> NoneStr, locality |-> "Kothrud, Pune", latitude |-> 60,
      longitude |-> -180, ip_address |-> "", media_urls |-> <<>>],
     [description |-> <<"Burst">>, issue_type |-> "Water",
      city |-> "Pune", locality |-> "Kothrud, Pune", latitude |-> -180,
      longitude |-> 60, ip_address |-> "", media_urls |-> <<>>],
     [description |-> <<"Flood">>, issue_type |-> "Water",
      city |-> "Pune", locality |-> "Kothrud, Pune", latitude |-> 120,
      longitude |-> 120, ip_address |-> "", media_urls |-> <<>>],
     [description |-> <<"Drain">>, issue_type |-> "Water",
      city |-> "Pune", locality |-> "Kothrud, Pune", latitude |-> 180,
      longitude |-> 120, ip_address |-> "", media_urls |-> <<"photo.jpg">>]}

NextAggregation ==
    \/ \E inp \in AggregationInputs :
          SubmitRateLimit("s1", inp, FALSE, MaxAggregationReports)
    \/ SubmitDuplicate("s1", FALSE)
    \/ SubmitPersist("s1", FALSE)
    \/ SubmitAI("s1", "disabled")
    \/ SubmitConfidenceRead("s1", "none")
    \/ SubmitConfidenceSelf("s1", FALSE)
    \/ SubmitPriority("s1", "none")
    \/ SubmitEscalation("s1", "none")
    \/ SubmitReturn("s1", FALSE)
    \/ AggStart("a1")
    \/ AggCluster("a1")
    \/ AggIssueWrite("a1")
    \/ AggLink("a1", FALSE)
    \/ AggRecalc("a1")
    \/ AggJoinFind("a1")
    \/ AggJoinLink("a1", FALSE)
    \/ AggJoinUpdate("a1")
    \/ AggJoinRecalc("a1")
    \/ AggReturn("a1")

SpecAggregation == InitStore /\ [][NextAggregation]_vars

\* The reports of S are of one issue type and normalized city, pairwise
\* within PROXIMITY_METERS and created within TIME_WINDOW_HOURS of each other
SameIssueNearby(S) ==
    \A i \in S, j \in S :
        /\ reports[i].issue_type = reports[j].issue_type
        /\ normalize_city_name(reports[i].city) = normalize_city_name(reports[j].city)
        /\ haversine_within(reports[i].latitude, reports[i].longitude,
                            reports[j].latitude, reports[j].longitude,
                            PROXIMITY_METERS)
        /\ Abs(reports[i].created_at - reports[j].created_at)
               <= TIME_WINDOW_HOURS * MinutesPerHour

RECURSIVE LatitudeSum(_)
LatitudeSum(S) ==
    IF S = {}
    THEN 0
    ELSE LET i == CHOOSE x \in S : TRUE
         IN  reports[i].latitude + LatitudeSum(S \ {i})

RECURSIVE LongitudeSum(_)
LongitudeSum(S) ==
    IF S = {}
    THEN 0
    ELSE LET i == CHOOSE x \in S : TRUE
         IN  reports[i].longitude + LongitudeSum(S \ {i})

\* The mean of the coordinates of S is exactly (0, 0)
MeanIsOrigin(S) == LatitudeSum(S) = 0 /\ LongitudeSum(S) = 0

\* The run of a is about to return, and the reports it streamed unlinked are
\* exactly MIN_REPORTS_FOR_ISSUE reports of one issue type and place, with no
\* issue in the store that holds any other report
RanOverFive(a) ==
    LET S == SeqToSet(agg[a].unlinked_reports)
    IN  /\ agg[a].pc = "return"
        /\ Cardinality(S) = MIN_REPORTS_FOR_ISSUE
        /\ SameIssueNearby(S)
        /\ \A j \in Ids(issues) : issues[j].report_ids \subseteq S

\* One issue holds exactly the reports the run streamed unlinked
OneIssueOfFive(a) ==
    LET S == SeqToSet(agg[a].unlinked_reports)
    IN  /\ Len(issues) = 1
        /\ issues[1].report_ids = S
        /\ issues[1].report_count = MIN_REPORTS_FOR_ISSUE
        /\ \A i \in S : reports[i].issue_id = 1

\* Some issue type and city has MIN_REPORTS_FOR_ISSUE or more unlinked
\* reports of a valid status in the store
FiveUnlinkedOfOneKind ==
    \E i \in Ids(reports) :
        Cardinality({j \in Ids(reports) :
                        /\ reports[j].issue_id = None
                        /\ reports[j].status \in VALID_STATUSES
                        /\ reports[j].issue_type = reports[i].issue_type
                        /\ normalize_city_name(reports[j].city)
                               = normalize_city_name(reports[i].city)})
            >= MIN_REPORTS_FOR_ISSUE

\* C10 as stated: a run of attempt_issue_aggregation over exactly 5 unlinked
\* eligible reports of one issue type and normalized city, pairwise within
\* 500 m and 2 hours, and no matching issue, ends with exactly one issue whose
\* report_ids are those 5 and whose report_count is 5, and with each of the 5
\* reports linked to it; and no step creates an issue while the store holds
\* 4 or fewer such reports.
C10_FiveReportsMakeOneIssue ==
    [][/\ \A a \in Aggregators : RanOverFive(a) => OneIssueOfFive(a)
       /\ Len(issues') > Len(issues) => FiveUnlinkedOfOneKind]_vars

\* C10, amended: the same, provided the mean of the 5 reports' coordinates
\* is not exactly (0, 0); when it is, the run ends with no issue and the 5
\* reports still unlinked.
C10_FiveReportsMakeOneIssueUnlessOrigin ==
    [][/\ \A a \in Aggregators :
             RanOverFive(a) =>
                 IF MeanIsOrigin(SeqToSet(agg[a].unlinked_reports))
                 THEN /\ issues = <<>>
                      /\ \A i \in Ids(reports) : reports[i].issue_id = None
                 ELSE OneIssueOfFive(a)
       /\ Len(issues') > Len(issues) => FiveUnlinkedOfOneKind]_vars

C10_Witness ==
    /\ RanOverFive("a1")
    /\ ~MeanIsOrigin(SeqToSet(agg["a1"].unlinked_reports))
    /\ OneIssueOfFive("a1")
    /\ agg["a1"].updated_issue_ids # <<>>

(***************************************************************************)
(* Aggregation over a store that already holds five reports.  The store    *)
(* create_report leaves when it runs alone, start to end, with the AI      *)
(* interpreter disabled: the document, the confidence label, the priority  *)
(* score and the escalation flag, in the order of the pipeline steps.      *)
(***************************************************************************)
create_report_alone(store, inp, now) ==
    LET rid == Len(store) + 1
        persisted == Append(store,
                         new_report_dict(inp, hash_ip_address(inp.ip_address),
                             ensure_city_not_null(inp.city, inp.locality,
                                                  inp.latitude, inp.longitude),
                             now))
        labelled == update_confidence(persisted, rid,
                        IF Len(inp.media_urls) > 0 THEN "HIGH" ELSE "LOW")
        scored == [labelled EXCEPT ![rid].priority_score =
                      calculate_priority(labelled, labelled[rid], rid, now)]
        result == evaluate_escalation(scored, scored[rid], rid, now)
    IN  IF result.escalation_flag
        THEN [scored EXCEPT ![rid] =
                 update_escalation_flag(@, TRUE, result.escalation_reason,
                                        "system", now)]
        ELSE scored

RECURSIVE create_reports_alone(_, _, _)
create_reports_alone(store, inputs, now) ==
    IF inputs = <<>>
    THEN store
    ELSE create_reports_alone(create_report_alone(store, Head(inputs), now),
                              Tail(inputs), now)

\* Five Water reports around one place in pune, no two within 50 m; the mean
\* of their coordinates is (12, 12)
FirstFiveInputs ==
    <<[description |-> <<"Water">>, issue_type |-> "Water",
       city |-> "Pune", locality |-> "Kothrud, Pune", latitude |-> -120,
       longitude |-> -60, ip_address |-> "10.0.0.1", media_urls |-> <<>>],
      [description |-> <<"Leak">>, issue_type |-> "Water",
       city |-> "Pune", locality |-> "Kothrud, Pune", latitude |-> 120,
       longitude |-> 60, ip_address |-> "10.0.0.2", media_urls |-> <<>>],
      [description |-> <<"Pipe">>, issue_type |-> "Water",
       city |-> NoneStr, locality |-> "Kothrud, Pune", latitude |-> 60,
       longitude |-> -180, ip_address |-> "", media_urls |-> <<>>],
      [description |-> <<"Burst">>, issue_type |-> "Water",
       city |-> "Pune", locality |-> "Kothrud, Pune", latitude |-> -180,
       longitude |-> 60, ip_address |-> "", media_urls |-> <<>>],
      [description |-> <<"Flood">>, issue_type |-> "Water",
       city |-> "Pune", locality |-> "Kothrud, Pune", latitude |-> 180,
       longitude |-> 180, ip_address |-> "", media_urls |-> <<>>]>>

\* The five reports stored, nothing aggregated yet, every handler idle
InitFive ==
    /\ reports = create_reports_alone(<<>>, FirstFiveInputs, 0)
    /\ issues = <<>>
    /\ clock = 0
    /\ rev = [v \in Reviewers |-> ReviewerReady]
    /\ sub = [p \in Submitters |-> SubmitterReady]
    /\ agg = [a \in Aggregators |-> AggregatorReady]

\* Later reports of the same kind within PROXIMITY_METERS of (12, 12): one on
\* latitude 0.0, one that brings the mean of six to (0, 0), two others
JoinInputs ==
    {[description |-> <<"Drain">>, issue_type |-> "Water",
      city |-> "Pune", locality |-> "Kothrud, Pune", latitude |-> 0,
      longitude |-> 60, ip_address |-> "", media_urls |-> <<>>],
     [description |-> <<"Sewage">>, issue_type |-> "Water",
      city |-> "Pune", locality |-> "Kothrud, Pune", latitude |-> -60,
      longitude |-> -60, ip_address |-> "", media_urls |-> <<>>],
     [description |-> <<"Garbage">>, issue_type |-> "Water",
      city |-> "Pune", locality |-> "Kothrud, Pune", latitude |-> 60,
      longitude |-> 60, ip_address |-> "", media_urls |-> <<"photo.jpg">>],
     [description |-> <<"Pothole">>, issue_type |-> "Water",
      city |-> "Pune", locality |-> "Kothrud, Pune", latitude |-> 60,
      longitude |-> 120, ip_address |-> "", media_urls |-> <<>>]}

NextJoin ==
    \/ \E inp \in JoinInputs : SubmitRateLimit("s1", inp, FALSE, MaxJoinReports)
    \/ SubmitDuplicate("s1", FALSE)
    \/ SubmitPersist("s1", FALSE)
    \/ SubmitAI("s1", "disabled")
    \/ SubmitConfidenceRead("s1", "none")
    \/ SubmitConfidenceSelf("s1", FALSE)
    \/ SubmitPriority("s1", "none")
    \/ SubmitEscalation("s1", "none")
    \/ SubmitReturn("s1", FALSE)
    \/ AggStart("a1")
    \/ AggCluster("a1")
    \/ AggIssueWrite("a1")
    \/ AggLink("a1", FALSE)
    \/ AggRecalc("a1")
    \/ AggJoinFind("a1")
    \/ AggJoinLink("a1", FALSE)
    \/ AggJoinUpdate("a1")
    \/ AggJoinRecalc("a1")
    \/ AggReturn("a1")

SpecJoin == InitFive /\ [][NextJoin]_vars

\* The run of a is about to return; it streamed exactly one unlinked report,
\* the sixth of the store, while the first five were linked to the one issue
\* built from them, and the report is of the issue's type and city and within
\* PROXIMITY_METERS of the centre of the five
SixthReportSeen(a) ==
    /\ agg[a].pc = "return"
    /\ agg[a].unlinked_reports = <<6>>
    /\ Len(reports) = 6
    /\ Len(issues) = 1
    /\ \A i \in 1..5 : reports[i].issue_id = 1
    /\ reports[6].issue_type = issues[1].issue_type
    /\ normalize_city_name(reports[6].city) = issues[1].city
    /\ point_within(Point(reports[6].latitude, reports[6].longitude, 1),
                    calculate_centroid(reports, <<1, 2, 3, 4, 5>>),
                    PROXIMITY_METERS)

\* C11: when an ACTIVE issue built from 5 reports exists and a 6th eligible
\* report of its issue type and normalized city within 500 m of its centroid
\* is stored, the next aggregation run ends with the report's id in the
\* issue's report_ids, report_count 6, the report's issue_id that issue, and
\* still one issue.
C11_SixthReportJoinsIssue ==
    \A a \in Aggregators :
        SixthReportSeen(a) =>
            /\ issues[1].report_ids = 1..6
            /\ issues[1].report_count = 6
            /\ reports[6].issue_id = 1

(***************************************************************************)
(* The hand-over from create_report to the aggregation engine.             *)
(***************************************************************************)

\* Every create_report request has returned and attempt_issue_aggregation
\* has never been invoked
OnlySubmissionsSoFar ==
    /\ \A p \in DOMAIN sub : sub[p].pc = "ready"
    /\ \A a \in Aggregators : agg[a] = AggregatorReady

\* The store holds MIN_REPORTS_FOR_ISSUE reports of a valid status, one issue
\* type and one place, pairwise within 500 m and 2 hours, whose mean
\* coordinate is not the rejected (0, 0)
QualifyingClusterStored ==
    \E S \in SUBSET Ids(reports) :
        /\ Cardinality(S) = MIN_REPORTS_FOR_ISSUE
        /\ \A i \in S : reports[i].status \in VALID_STATUSES
        /\ \A i \in S : normalize_city_name(reports[i].city) # "UNKNOWN"
        /\ SameIssueNearby(S)
        /\ ~MeanIsOrigin(S)

\* C12: a report that create_report has persisted is handed to the issue
\* aggregation engine once its confidence, priority and escalation steps are
\* over, so a qualifying cluster of submitted reports becomes an issue with
\* no separate batch invocation: when every request has returned and
\* attempt_issue_aggregation was never invoked on its own, a stored
\* qualifying cluster has its issue.
C12_SubmissionsMaterializeIssue ==
    (OnlySubmissionsSoFar /\ QualifyingClusterStored) => issues # <<>>

\* C13: once the aggregation engine has set a report's issue_id, no later
\* step of that run or of any other run sets it to another issue or clears it.
C13_IssueIdImmutable ==
    [][\A i \in Ids(reports) :
           reports[i].issue_id # None
               => reports'[i].issue_id = reports[i].issue_id]_vars

(***************************************************************************)
(* recalculate_issue_confidence as its two store operations: the read of   *)
(* the issue and of its reports (lines 167-194), and the update of the     *)
(* issue document with update_data (lines 225-234).                        *)
(***************************************************************************)
\* update_data as computed from what the reads return
issue_update_data(issue_store, store, issue_id, now) ==
    IF issue_store[issue_id].report_ids = {}
    THEN <<>>
    ELSE recalculate_issue_confidence(issue_store, store, issue_id, now)[issue_id]

\* issue_ref.update(update_data): the six fields of update_data and no other
issue_ref_update(issue_store, issue_id, update_data) ==
    IF update_data = <<>>
    THEN issue_store
    ELSE [issue_store EXCEPT ![issue_id] =
             [@ EXCEPT !.confidence = update_data.confidence,
                       !.confidence_score = update_data.confidence_score,
                       !.confidence_reason = update_data.confidence_reason,
                       !.confidence_timeline = update_data.confidence_timeline,
                       !.updated_at = update_data.updated_at,
                       !.report_count = update_data.report_count]]

AggJoinRecalcRead(a) ==
    /\ agg[a].pc = "join_recalc"
    /\ agg' = [agg EXCEPT ![a] =
           [@ EXCEPT !.pc = "join_recalc_write",
                     !.update_data = issue_update_data(issues, reports,
                                                       agg[a].issue_id, clock)]]
    /\ UNCHANGED <<reports, issues, clock, rev, sub>>

AggJoinRecalcWrite(a) ==
    /\ agg[a].pc = "join_recalc_write"
    /\ issues' = issue_ref_update(issues, agg[a].issue_id, agg[a].update_data)
    /\ agg' = [agg EXCEPT ![a] = agg_continue(
           [@ EXCEPT !.todo = Tail(@),
                     !.updated_issue_ids =
                         IF agg[a].issue_id \in SeqToSet(@)
                         THEN @ ELSE Append(@, agg[a].issue_id)])]
    /\ UNCHANGED <<reports, clock, rev, sub>>

(***************************************************************************)
(* Reports that arrive after the issue of the first five exists, a run of  *)
(* attempt_issue_aggregation and an administrator's request to recalculate *)
(* the issue's confidence.  No five unlinked reports are ever in the       *)
(* store, so the run finds no cluster.                                     *)
(***************************************************************************)
\* The five reports after a run of attempt_issue_aggregation on its own
FiveLinked ==
    [i \in 1..5 |->
        [create_reports_alone(<<>>, FirstFiveInputs, 0)[i] EXCEPT !.issue_id = 1]]

\* The issue that run leaves
FirstIssue ==
    recalculate_issue_confidence(
        <<new_issue_data(FiveLinked, <<1, 2, 3, 4, 5>>,
                         calculate_centroid(FiveLinked, <<1, 2, 3, 4, 5>>), 0)>>,
        FiveLinked, 1, 0)

InitFirstIssue ==
    /\ reports = FiveLinked
    /\ issues = FirstIssue
    /\ clock = 0
    /\ rev = [v \in Reviewers |-> ReviewerReady]
    /\ sub = [p \in Submitters |-> SubmitterReady]
    /\ agg = [a \in Aggregators |-> AggregatorReady]

\* Three later reports of the same kind within PROXIMITY_METERS of the issue
LateInputs ==
    {[description |-> <<"Garbage">>, issue_type |-> "Water",
      city |-> "Pune", locality |-> "Kothrud, Pune", latitude |-> 60,
      longitude |-> 60, ip_address |-> "", media_urls |-> <<"photo.jpg">>],
     [description |-> <<"Pothole">>, issue_type |-> "Water",
      city |-> "Pune", locality |-> "Kothrud, Pune", latitude |-> 60,
      longitude |-> 120, ip_address |-> "", media_urls |-> <<>>],
     [description |-> <<"Drain">>, issue_type |-> "Water",
      city |-> "Pune", locality |-> "Kothrud, Pune", latitude |-> 120,
      longitude |-> 120, ip_address |-> "", media_urls |-> <<>>]}

\* POST /issues/{issue_id}/recalculate-confidence (routes/admin.py 608-660):
\* recalculate_issue_confidence, its reads
RecalculateConfidenceRead(v, issue_id) ==
    /\ rev[v].pc = "ready"
    /\ rev' = [rev EXCEPT ![v] =
            IF issue_id \notin Ids(issues)
            THEN [ReviewerReady EXCEPT !.op = "recalculate_confidence",
                                       !.rid = issue_id, !.out = "not_found"]
            ELSE IF issues[issue_id].report_ids = {}
                 THEN [ReviewerReady EXCEPT !.op = "recalculate_confidence",
                                            !.rid = issue_id, !.out = "ok"]
                 ELSE [ReviewerReady EXCEPT
                          !.pc = "validated", !.op = "recalculate_confidence",
                          !.rid = issue_id,
                          !.entry = <<issue_update_data(issues, reports,
                                                        issue_id, clock)>>]]
    /\ UNCHANGED <<reports, issues, clock, sub, agg>>

\* and its update of the issue document
RecalculateConfidenceWrite(v) ==
    /\ rev[v].pc = "validated"
    /\ rev[v].op = "recalculate_confidence"
    /\ issues' = issue_ref_update(issues, rev[v].rid, rev[v].entry[1])
    /\ rev' = [rev EXCEPT ![v] =
            [ReviewerReady EXCEPT !.op = "recalculate_confidence",
                                  !.rid = rev[v].rid, !.out = "ok"]]
    /\ UNCHANGED <<reports, clock, sub, agg>>

NextLate ==
    \/ \E inp \in LateInputs : SubmitRateLimit("s1", inp, FALSE, MaxLateReports)
    \/ SubmitDuplicate("s1", FALSE)
    \/ SubmitPersist("s1", FALSE)
    \/ SubmitAI("s1", "disabled")
    \/ SubmitConfidenceRead("s1", "none")
    \/ SubmitConfidenceSelf("s1", FALSE)
    \/ SubmitPriority("s1", "none")
    \/ SubmitEscalation("s1", "none")
    \/ SubmitReturn("s1", FALSE)
    \/ AggStart("a1")
    \/ AggJoinFind("a1")
    \/ AggJoinLink("a1", FALSE)
    \/ AggJoinUpdate("a1")
    \/ AggJoinRecalcRead("a1")
    \/ AggJoinRecalcWrite("a1")
    \/ AggReturn("a1")
    \/ \E j \in Ids(issues) : RecalculateConfidenceRead("rv1", j)
    \/ RecalculateConfidenceWrite("rv1")

SpecLate == InitFirstIssue /\ [][NextLate]_vars

\* No run and no request is between the store operations of an issue
\* update it began
NoUpdateInProgress ==
    /\ \A a \in Aggregators :
           agg[a].pc \notin {"link", "recalc", "join_update", "join_recalc",
                             "join_recalc_write"}
    /\ \A v \in Reviewers : rev[v].pc = "ready"

\* C14: for every issue in the store, after any create, merge, incremental
\* join or confidence recomputation, report_count equals the number of
\* distinct ids in report_ids.
C14_ReportCountIsNumberOfIds ==
    NoUpdateInProgress =>
        \A j \in Ids(issues) :
            issues[j].report_count = Cardinality(issues[j].report_ids)

(***************************************************************************)
(* Reports from a second place, a little over PROXIMITY_METERS from the    *)
(* issue of the first five, and one run of attempt_issue_aggregation at a  *)
(* time.                                                                   *)
(***************************************************************************)
\* Four reports around (600, 12), each more than 500 m from the issue's
\* centre (12, 12) and no two within 50 m
FarFourInputs ==
    <<[description |-> <<"Water">>, issue_type |-> "Water",
       city |-> "Pune", locality |-> "Karve Nagar, Pune", latitude |-> 540,
       longitude |-> 12, ip_address |-> "", media_urls |-> <<>>],
      [description |-> <<"Leak">>, issue_type |-> "Water",
       city |-> "Pune", locality |-> "Karve Nagar, Pune", latitude |-> 660,
       longitude |-> 12, ip_address |-> "", media_urls |-> <<>>],
      [description |-> <<"Pipe">>, issue_type |-> "Water",
       city |-> "Pune", locality |-> "Karve Nagar, Pune", latitude |-> 600,
       longitude |-> -48, ip_address |-> "", media_urls |-> <<>>],
      [description |-> <<"Burst">>, issue_type |-> "Water",
       city |-> "Pune", locality |-> "Karve Nagar, Pune", latitude |-> 600,
       longitude |-> 72, ip_address |-> "", media_urls |-> <<>>]>>

\* The issue of the first five, and the four reports stored after it: no run
\* of attempt_issue_aggregation links or clusters them
InitPlaces ==
    /\ reports = create_reports_alone(FiveLinked, FarFourInputs, 0)
    /\ issues = FirstIssue
    /\ clock = 0
    /\ rev = [v \in Reviewers |-> ReviewerReady]
    /\ sub = [p \in Submitters |-> SubmitterReady]
    /\ agg = [a \in Aggregators |-> AggregatorReady]

\* The fifth report of the second place, and three reports between the two
PlacesInputs ==
    {[description |-> <<"Flood">>, issue_type |-> "Water",
      city |-> "Pune", locality |-> "Karve Nagar, Pune", latitude |-> 600,
      longitude |-> 12, ip_address |-> "", media_urls |-> <<>>],
     [description |-> <<"Drain">>, issue_type |-> "Water",
      city |-> "Pune", locality |-> "Kothrud, Pune", latitude |-> 300,
      longitude |-> 12, ip_address |-> "", media_urls |-> <<>>],
     [description |-> <<"Sewage">>, issue_type |-> "Water",
      city |-> "Pune", locality |-> "Kothrud, Pune", latitude |-> 360,
      longitude |-> 12, ip_address |-> "", media_urls |-> <<>>],
     [description |-> <<"Garbage">>, issue_type |-> "Water",
      city |-> "Pune", locality |-> "Kothrud, Pune", latitude |-> 420,
      longitude |-> 12, ip_address |-> "", media_urls |-> <<>>]}

NextPlaces ==
    \/ \E inp \in PlacesInputs :
           SubmitRateLimit("s1", inp, FALSE, MaxPlacesReports)
    \/ SubmitDuplicate("s1", FALSE)
    \/ SubmitPersist("s1", FALSE)
    \/ SubmitAI("s1", "disabled")
    \/ SubmitConfidenceRead("s1", "none")
    \/ SubmitConfidenceSelf("s1", FALSE)
    \/ SubmitPriority("s1", "none")
    \/ SubmitEscalation("s1", "none")
    \/ SubmitReturn("s1", FALSE)
    \/ AggStart("a1")
    \/ AggCluster("a1")
    \/ AggIssueWrite("a1")
    \/ AggLink("a1", FALSE)
    \/ AggRecalc("a1")
    \/ AggJoinFind("a1")
    \/ AggJoinLink("a1", FALSE)
    \/ AggJoinUpdate("a1")
    \/ AggJoinRecalc("a1")
    \/ AggReturn("a1")

SpecPlaces == InitPlaces /\ [][NextPlaces]_vars

\* Points on the line between the two places
ProbePoints == {Point(x, 12, 1) : x \in {12, 159, 306, 453, 600}}

\* The ACTIVE issues of j's issue type and city, other than j, whose centre
\* is within PROXIMITY_METERS of p
OtherActiveIssuesNear(p, j) ==
    {k \in Ids(issues) \ {j} :
        /\ issues[k].status = "ACTIVE"
        /\ issues[k].issue_type = issues[j].issue_type
        /\ issues[k].city = issues[j].city
        /\ point_within(issues[k].centroid, p, PROXIMITY_METERS)}

\* C15: with aggregation runs that do not overlap in time, for each issue
\* type and normalized city and each point, at most one ACTIVE issue has its
\* centre within PROXIMITY_METERS of that point.
C15_OneActiveIssuePerPlace ==
    \A j \in Ids(issues) : \A p \in ProbePoints :
        (issues[j].status = "ACTIVE"
            /\ point_within(issues[j].centroid, p, PROXIMITY_METERS))
        => OtherActiveIssuesNear(p, j) = {}

\* The centres of two ACTIVE issues of one issue type and city are within
\* PROXIMITY_METERS of each other
TwoIssuesWithinProximity ==
    \E j \in Ids(issues) :
        /\ issues[j].status = "ACTIVE"
        /\ OtherActiveIssuesNear(issues[j].centroid, j) # {}

(***************************************************************************)
(* The centroid guard of the merge and of the incremental join.            *)
(***************************************************************************)
\* The run of a is at the issue update of an incremental join and the centre
\* of the issue's reports with the joining report is a rejected one
JoinRejected(a) ==
    /\ agg[a].pc = "join_update"
    /\ LET id == Head(agg[a].todo)
       IN  centroid_rejected(calculate_centroid(reports,
               <<id>> \o SortedSeq(issues[agg[a].existing_issue_id].report_ids
                                       \ {id})))

\* The run of a is at the issue update of a merge and the centre of the
\* cluster with the issue's reports is a rejected one
MergeRejected(a) ==
    /\ agg[a].pc = "issue"
    /\ agg[a].existing_issue_id # None
    /\ centroid_rejected(calculate_centroid(reports,
           agg[a].cluster
               \o SortedSeq(issues[agg[a].existing_issue_id].report_ids
                                \ SeqToSet(agg[a].cluster))))

\* C16: when a merge or an incremental join computes a centroid that is
\* rejected, the operation is skipped as a whole: it leaves the issue's
\* centroid, report_ids, report_count and locality as they were and writes
\* no report's issue_id.
C16_RejectedCentroidSkipsOperation ==
    [][\A a \in Aggregators :
          /\ JoinRejected(a) => reports[Head(agg[a].todo)].issue_id = None
          /\ ((JoinRejected(a) \/ MergeRejected(a)) /\ agg'[a] # agg[a])
                 => /\ issues' = issues
                    /\ \A i \in Ids(reports) :
                           reports'[i].issue_id = reports[i].issue_id]_vars

(***************************************************************************)
(* The score and label of an issue as the scoring rules state them.        *)
(***************************************************************************)
\* 1 for a condition that holds, 0 for one that does not
Indicator(b) == IF b THEN 1 ELSE 0

\* The score of issue j in hundredths, formed being the number of reports
\* the issue was created from
StatedScore(j, formed) ==
    LET ids == issues[j].report_ids
        reporters == {reports[i].ip_address_hash : i \in ids} \ {NoneStr, ""}
    IN  Min2(100,
             20 + 20 * Indicator(Cardinality(ids) - formed >= 3)
                + 15 * Indicator(Cardinality(reporters) > 1)
                + 15 * Indicator(clock - issues[j].created_at
                                     > 2 * MinutesPerHour)
                + 10 * Indicator(\E i \in ids : Len(reports[i].media_urls) > 0))

StatedIssueLabel(score) ==
    IF score < 40 THEN "LOW" ELSE IF score < 70 THEN "MEDIUM" ELSE "HIGH"

\* C17: recalculate_issue_confidence leaves the score min(1.0, 0.2 + 0.2 for
\* a linked-report count grown by 3 or more beyond the count at formation
\* + 0.15 for more than one reporter + 0.15 for an age over 2 hours + 0.10
\* for media) and the label LOW below 0.4, MEDIUM below 0.7, HIGH from 0.7;
\* the issue formed from 5 reports has the growth increment at 8 reports.
C17_IssueScoreAsStated ==
    NoUpdateInProgress =>
        /\ issues[1].confidence_score = StatedScore(1, MIN_REPORTS_FOR_ISSUE)
        /\ issues[1].confidence = StatedIssueLabel(issues[1].confidence_score)

(***************************************************************************)
(* recalculate_issue_confidence run twice in a row.                        *)
(***************************************************************************)
\* The issues after one recalculation of issue j, and after a second
RecalculatedOnce(j) == recalculate_issue_confidence(issues, reports, j, clock)
RecalculatedTwice(j) ==
    recalculate_issue_confidence(RecalculatedOnce(j), reports, j, clock)

\* The last confidence_timeline entry of an issue carries its score and label
LastEntryIsCurrent(issue_data) ==
    LET timeline == issue_data.confidence_timeline
    IN  /\ timeline # <<>>
        /\ timeline[Len(timeline)].confidence_score = issue_data.confidence_score
        /\ timeline[Len(timeline)].new_confidence = issue_data.confidence

\* C18: two runs of recalculate_issue_confidence in a row, over the same
\* linked reports and at the same age, leave the same score and label and
\* the second appends no confidence_timeline entry; a run appends an entry
\* exactly when it changes the score or the label, and the last entry is
\* the issue's current score and label.
C18_RecalculationIdempotent ==
    \A j \in Ids(issues) :
        LET before == issues[j]
            once == RecalculatedOnce(j)[j]
            twice == RecalculatedTwice(j)[j]
        IN  /\ twice.confidence_score = once.confidence_score
            /\ twice.confidence = once.confidence
            /\ twice.confidence_timeline = once.confidence_timeline
            /\ Len(once.confidence_timeline)
                   = Len(before.confidence_timeline)
                       + Indicator(\/ once.confidence_score # before.confidence_score
                                   \/ once.confidence # before.confidence)
            /\ LastEntryIsCurrent(before)
            /\ LastEntryIsCurrent(once)

(***************************************************************************)
(* The AI provider's answer as the only thing that varies: every request   *)
(* is made at the same minute, one after the other, and the provider       *)
(* returns a category, is disabled, or raises.                             *)
(***************************************************************************)
NextProvider ==
    \/ \E inp \in ConfidenceInputs :
          SubmitRateLimit("s1", inp, FALSE, MaxProviderReports)
    \/ SubmitDuplicate("s1", FALSE)
    \/ SubmitPersist("s1", FALSE)
    \/ \E ai \in ProviderAnswers \cup {"raise"} : SubmitAI("s1", ai)
    \/ SubmitConfidenceRead("s1", "none")
    \/ SubmitConfidenceSelf("s1", FALSE)
    \/ SubmitConfidencePeer("s1", FALSE)
    \/ SubmitPriority("s1", "none")
    \/ SubmitEscalation("s1", "none")
    \/ SubmitReturn("s1", FALSE)

SpecProvider == InitStore /\ [][NextProvider]_vars

\* The request that stored report r
SubmittedInput(r) ==
    CHOOSE inp \in ConfidenceInputs : inp.description = r.description

\* The store the same requests leave when the provider is disabled
StoreWithoutProvider ==
    create_reports_alone(<<>>,
        [i \in 1..Len(reports) |-> SubmittedInput(reports[i])], 0)

\* Every request has returned
AllRequestsReturned == \A p \in Submitters : sub[p].pc = "ready"

\* C19: two runs of the same submissions and aggregation runs that differ
\* only in what the AI provider returns leave the same confidence label,
\* status, priority_score and escalation_flag on every report and the same
\* confidence on every issue; here one of the two runs is the run with the
\* provider disabled.
C19_ProviderDoesNotInterfere ==
    AllRequestsReturned =>
        /\ Len(issues) = 0
        /\ \A i \in Ids(reports) :
              /\ reports[i].confidence = StoreWithoutProvider[i].confidence
              /\ reports[i].status = StoreWithoutProvider[i].status
              /\ reports[i].priority_score = StoreWithoutProvider[i].priority_score
              /\ reports[i].escalation_flag = StoreWithoutProvider[i].escalation_flag

(***************************************************************************)
(* attempt_issue_aggregation as a batch job run again: reports from the    *)
(* second place and from between the two are submitted after the issue of  *)
(* the first five exists, then a1 is the first run over them and a2 every  *)
(* run after it.  Fewer than five reports are unlinked, so no run finds a  *)
(* cluster.                                                                *)
(***************************************************************************)
\* No run of attempt_issue_aggregation has been started yet
BeforeFirstRun == agg["a1"] = AggregatorReady

NextRerun ==
    \/ /\ BeforeFirstRun
       /\ \E inp \in PlacesInputs :
              SubmitRateLimit("s1", inp, FALSE, MaxRerunReports)
    \/ BeforeFirstRun /\ SubmitDuplicate("s1", FALSE)
    \/ BeforeFirstRun /\ SubmitPersist("s1", FALSE)
    \/ BeforeFirstRun /\ SubmitAI("s1", "disabled")
    \/ BeforeFirstRun /\ SubmitConfidenceRead("s1", "none")
    \/ BeforeFirstRun /\ SubmitConfidenceSelf("s1", FALSE)
    \/ BeforeFirstRun /\ SubmitPriority("s1", "none")
    \/ BeforeFirstRun /\ SubmitEscalation("s1", "none")
    \/ BeforeFirstRun /\ SubmitReturn("s1", FALSE)
    \/ /\ sub["s1"].pc = "ready"
       /\ agg["a1"].out = ""
       /\ AggStart("a1")
    \/ /\ agg["a1"].out = "done"
       /\ AggStart("a2")
    \/ \E a \in Aggregators :
           \/ AggJoinFind(a)
           \/ AggJoinLink(a, FALSE)
           \/ AggJoinUpdate(a)
           \/ AggJoinRecalc(a)
           \/ AggReturn(a)

SpecRerun == InitFirstIssue /\ [][NextRerun]_vars

\* C20: a run of attempt_issue_aggregation made when no report was added or
\* changed since the run before it creates no issue and changes no issue's
\* report_ids, report_count or centroid and no report's issue_id.
C20_RerunChangesNothing ==
    [][agg'["a2"] # agg["a2"] =>
          /\ Len(issues') = Len(issues)
          /\ \A j \in Ids(issues) :
                /\ issues'[j].report_ids = issues[j].report_ids
                /\ issues'[j].report_count = issues[j].report_count
                /\ issues'[j].centroid = issues[j].centroid
          /\ \A i \in Ids(reports) :
                reports'[i].issue_id = reports[i].issue_id]_vars

(***************************************************************************)
(* POST /reports/{id}/escalate and /dismiss-escalation (routes/admin.py):  *)
(* get_report_by_id and the reason, then update_escalation_flag's          *)
(* doc_ref.get(), then its doc_ref.update().                               *)
(***************************************************************************)
MaxEscalationHistory == 3
MaxEscalationReports == 1

\* The reason a reviewer's request hands to update_escalation_flag
approve_escalation_reason(store, report, report_id, note, now) ==
    LET escalation_result == evaluate_escalation(store, report, report_id, now)
    IN  IF Len(escalation_result.escalation_reason) > 0
        THEN escalation_result.escalation_reason
        ELSE IF note # NoneStr THEN <<note>>
        ELSE <<"Manually escalated by reviewer">>

dismiss_escalation_reason(note) ==
    IF note # NoneStr THEN <<note>> ELSE <<"Escalation dismissed by reviewer">>

\* The document after update_escalation_flag's doc_ref.update(update_data),
\* update_data being built from current_data, the document read before
escalation_ref_update(doc, current_data, escalation_flag, escalation_reason, changed_by, now) ==
    IF current_data.escalation_flag # escalation_flag
    THEN [doc EXCEPT
            !.escalation_flag = escalation_flag,
            !.escalation_reason =
                IF Len(escalation_reason) > 0 THEN escalation_reason ELSE @,
            !.escalation_history =
                Append(current_data.escalation_history,
                       [from_flag |-> current_data.escalation_flag,
                        to_flag |-> escalation_flag,
                        changed_by |-> changed_by,
                        timestamp |-> now,
                        reason |-> escalation_reason])]
    ELSE doc

\* The route up to the call of update_escalation_flag
EscalationRequest(v, op, report_id, note) ==
    /\ rev[v].pc = "ready"
    /\ op \in {"approve_escalation", "dismiss_escalation"}
    /\ rev' = [rev EXCEPT ![v] =
            IF report_id \notin Ids(reports)
            THEN [ReviewerReady EXCEPT !.op = op, !.rid = report_id,
                                       !.out = "not_found"]
            ELSE [ReviewerReady EXCEPT
                    !.pc = "reasoned", !.op = op, !.rid = report_id,
                    !.entry =
                        IF op = "approve_escalation"
                        THEN approve_escalation_reason(
                                 reports, reports[report_id], report_id, note,
                                 clock)
                        ELSE dismiss_escalation_reason(note)]]
    /\ UNCHANGED <<reports, issues, clock, sub, agg>>

\* update_escalation_flag, lines 150-157: doc_ref.get()
EscalationGet(v) ==
    /\ rev[v].pc = "reasoned"
    /\ Len(reports[rev[v].rid].escalation_history) < MaxEscalationHistory
    /\ rev' = [rev EXCEPT ![v].pc = "got",
                          ![v].hist = <<reports[rev[v].rid]>>]
    /\ UNCHANGED <<reports, issues, clock, sub, agg>>

\* update_escalation_flag, lines 159-198: the update when the flag read
\* differs from the one asked for, and the final read
EscalationUpdate(v) ==
    /\ rev[v].pc = "got"
    /\ reports' = [reports EXCEPT ![rev[v].rid] =
            escalation_ref_update(@, rev[v].hist[1],
                                  rev[v].op = "approve_escalation",
                                  rev[v].entry, v, clock)]
    /\ rev' = [rev EXCEPT ![v] =
            [ReviewerReady EXCEPT !.op = rev[v].op, !.rid = rev[v].rid,
                                  !.out = "ok"]]
    /\ UNCHANGED <<issues, clock, sub, agg>>

\* One report is of a safety-critical type (the system escalates it), one
\* is not
EscalationInputs ==
    {[description |-> <<"Open", "Manhole">>, issue_type |-> "Safety",
      city |-> "Pune", locality |-> "Kothrud, Pune", latitude |-> 100,
      longitude |-> 100, ip_address |-> "10.0.0.1", media_urls |-> <<>>],
     [description |-> <<"Water", "Leak">>, issue_type |-> "Water",
      city |-> "Pune", locality |-> "Karve Nagar, Pune", latitude |-> 700,
      longitude |-> 100, ip_address |-> "10.0.0.2", media_urls |-> <<>>]}

NextEscalation ==
    \/ \E inp \in EscalationInputs :
          SubmitRateLimit("s1", inp, FALSE, MaxEscalationReports)
    \/ SubmitDuplicate("s1", FALSE)
    \/ SubmitPersist("s1", FALSE)
    \/ SubmitAI("s1", "disabled")
    \/ SubmitConfidenceRead("s1", "none")
    \/ SubmitConfidenceSelf("s1", FALSE)
    \/ SubmitPriority("s1", "none")
    \/ SubmitEscalation("s1", "none")
    \/ SubmitReturn("s1", FALSE)
    \/ \E v \in Reviewers, report_id \in 1..(MaxEscalationReports + 1),
          op \in {"approve_escalation", "dismiss_escalation"},
          note \in {NoneStr, "checked on site"} :
          EscalationRequest(v, op, report_id, note)
    \/ \E v \in Reviewers : EscalationGet(v)
    \/ \E v \in Reviewers : EscalationUpdate(v)

SpecEscalation == InitStore /\ [][NextEscalation]_vars

EscalationActors == Reviewers \cup {"system"}

\* The flag is the to_flag of the last history record, FALSE without one
FlagIsLastRecord(r) ==
    r.escalation_flag =
        IF r.escalation_history = <<>> THEN FALSE
        ELSE r.escalation_history[Len(r.escalation_history)].to_flag

\* A step that changes the flag appends one record naming the previous
\* flag, the new flag and the actor
FlagChangeRecorded(old, new) ==
    old.escalation_flag # new.escalation_flag =>
        /\ Len(new.escalation_history) = Len(old.escalation_history) + 1
        /\ SubSeq(new.escalation_history, 1, Len(old.escalation_history))
               = old.escalation_history
        /\ LET e == new.escalation_history[Len(new.escalation_history)]
           IN  /\ e.from_flag = old.escalation_flag
               /\ e.to_flag = new.escalation_flag
               /\ e.changed_by \in EscalationActors

\* No step removes or rewrites a record of the history
HistoryAppendOnly(old, new) ==
    /\ Len(new.escalation_history) >= Len(old.escalation_history)
    /\ SubSeq(new.escalation_history, 1, Len(old.escalation_history))
           = old.escalation_history

\* C21, the state part: in every reachable state, overlapping requests
\* included, each report's escalation_flag equals the to_flag of the last
\* escalation_history record, or is false when the history is empty.
C21_FlagIsLastRecord ==
    \A i \in Ids(reports) : FlagIsLastRecord(reports[i])

\* C21: every change of a report's escalation_flag, by the system during
\* create_report or by a reviewer's escalate / dismiss request, appends
\* exactly one escalation_history record with the previous flag, the new flag
\* and the actor; the history is append-only; and in every reachable state
\* the flag equals the to_flag of the last record, or false when the history
\* is empty.
C21_EscalationHistoryRecordsEveryChange ==
    [][/\ \A i \in Ids(reports) :
             /\ FlagChangeRecorded(reports[i], reports'[i])
             /\ HistoryAppendOnly(reports[i], reports'[i])
       /\ \A i \in Ids(reports') : FlagIsLastRecord(reports'[i])]_vars

\* A reviewer has set the flag of a report and a reviewer has cleared it
C21_ReviewerSetAndCleared ==
    \E i \in Ids(reports) :
        \E j, k \in 1..Len(reports[i].escalation_history) :
            /\ j < k
            /\ reports[i].escalation_history[j].changed_by \in Reviewers
            /\ reports[i].escalation_history[j].to_flag
            /\ reports[i].escalation_history[k].changed_by \in Reviewers
            /\ ~reports[i].escalation_history[k].to_flag

(***************************************************************************)
(* POST /reports/{id}/recalculate-priority (routes/admin.py):              *)
(* recalculate_priority's doc_ref.get() and calculate_priority, then its   *)
(* doc_ref.update().                                                       *)
(***************************************************************************)
RecalculatePriorityRead(v, report_id) ==
    /\ rev[v].pc = "ready"
    /\ rev' = [rev EXCEPT ![v] =
            IF report_id \notin Ids(reports)
            THEN [ReviewerReady EXCEPT !.op = "recalculate_priority",
                                       !.rid = report_id, !.out = "not_found"]
            ELSE [ReviewerReady EXCEPT
                    !.pc = "calculated", !.op = "recalculate_priority",
                    !.rid = report_id,
                    !.entry = <<calculate_priority(reports, reports[report_id],
                                                   report_id, clock)>>]]
    /\ UNCHANGED <<reports, issues, clock, sub, agg>>

RecalculatePriorityWrite(v) ==
    /\ rev[v].pc = "calculated"
    /\ reports' = [reports EXCEPT ![rev[v].rid].priority_score = rev[v].entry[1]]
    /\ rev' = [rev EXCEPT ![v] =
            [ReviewerReady EXCEPT !.op = "recalculate_priority",
                                  !.rid = rev[v].rid,
                                  !.entry = rev[v].entry, !.out = "ok"]]
    /\ UNCHANGED <<issues, clock, sub, agg>>

(***************************************************************************)
(* Scoring and escalation of a sixth report: five Water reports of one     *)
(* locality are stored, a sixth is submitted, time passes, a reviewer      *)
(* changes statuses, upgrades the confidence, recalculates the priority    *)
(* and escalates.                                                          *)
(***************************************************************************)
MaxScoringReports == 6
ScoringTimes == {0, 2880, 3600, 9000}

\* The document after update_status has accepted new_status, run alone
update_status_alone(doc, new_status, changed_by, now) ==
    LET tr == validate_and_transition(doc.status, new_status, changed_by,
                                      NoneStr, None)
    IN  IF tr.valid
        THEN status_update(doc, new_status, doc.status_history,
                           tr.history_entry[1], now)
        ELSE doc

\* The stores the sixth report arrives in: the five reports of one locality;
\* the same with the first one closed by a reviewer; two of them in that
\* locality and three in another
ScoringStores ==
    LET five == create_reports_alone(<<>>, FirstFiveInputs, 0)
        moved == [i \in 1..5 |->
                     IF i <= 2 THEN FirstFiveInputs[i]
                     ELSE [FirstFiveInputs[i] EXCEPT
                              !.locality = "Karve Nagar, Pune"]]
    IN  {five,
         [five EXCEPT ![1] =
             update_status_alone(
                 update_status_alone(
                     update_status_alone(@, "VERIFIED", "rv1", 0),
                     "ACTION_TAKEN", "rv1", 0),
                 "CLOSED", "rv1", 0)],
         create_reports_alone(<<>>, moved, 0)}

InitScoring ==
    /\ reports \in ScoringStores
    /\ issues = <<>>
    /\ clock = 0
    /\ rev = [v \in Reviewers |-> ReviewerReady]
    /\ sub = [p \in Submitters |-> SubmitterReady]
    /\ agg = [a \in Aggregators |-> AggregatorReady]

ScoringInputs ==
    {[description |-> <<"Open", "Manhole">>, issue_type |-> "Safety",
      city |-> "Pune", locality |-> "Kothrud, Pune", latitude |-> 300,
      longitude |-> 300, ip_address |-> "10.0.0.6", media_urls |-> <<>>],
     [description |-> <<"Sewage">>, issue_type |-> "Water",
      city |-> "Pune", locality |-> "Kothrud, Pune", latitude |-> 300,
      longitude |-> 300, ip_address |-> "10.0.0.6",
      media_urls |-> <<"photo.jpg">>],
     [description |-> <<"Jam">>, issue_type |-> "Traffic",
      city |-> "Pune", locality |-> "Karve Nagar, Pune", latitude |-> 900,
      longitude |-> 300, ip_address |-> "10.0.0.6", media_urls |-> <<>>]}

\* The sixth report is submitted and its status changed at time 0; time
\* passes and the reviewer acts once the submission has returned
NextScoring ==
    \/ \E inp \in ScoringInputs :
          /\ clock = 0
          /\ rev["rv1"].pc = "ready"
          /\ SubmitRateLimit("s1", inp, FALSE, MaxScoringReports)
    \/ SubmitDuplicate("s1", FALSE)
    \/ SubmitPersist("s1", FALSE)
    \/ SubmitAI("s1", "disabled")
    \/ SubmitConfidenceRead("s1", "none")
    \/ SubmitConfidenceSelf("s1", FALSE)
    \/ \E fail \in {"none", "get"} : SubmitPriority("s1", fail)
    \/ SubmitEscalation("s1", "none")
    \/ SubmitReturn("s1", FALSE)
    \/ \E t \in ScoringTimes :
          /\ t > clock
          /\ \A u \in ScoringTimes : u <= clock \/ u >= t
          /\ sub["s1"].pc = "ready"
          /\ Tick(t - clock, t)
    \/ /\ sub["s1"].pc = "ready"
       /\ Len(reports) = MaxScoringReports
       /\ \/ \E new_status \in {"VERIFIED", "ACTION_TAKEN", "CLOSED"} :
                /\ clock = 0
                /\ UpdateStatusRead("rv1", MaxScoringReports, new_status,
                                    NoneStr)
          \/ UpgradeConfidenceRead("rv1", MaxScoringReports)
          \/ RecalculatePriorityRead("rv1", MaxScoringReports)
          \/ EscalationRequest("rv1", "approve_escalation", MaxScoringReports,
                               NoneStr)
    \/ UpdateStatusWrite("rv1")
    \/ UpgradeConfidenceWrite("rv1")
    \/ RecalculatePriorityWrite("rv1")
    \/ EscalationGet("rv1")
    \/ EscalationUpdate("rv1")

SpecScoring == InitScoring /\ [][NextScoring]_vars

\* The four rules of the escalation engine as the specification states them;
\* the count of rule 2 is taken over the other reports of the locality
StatedRules(store, report, report_id, now) ==
    <<report.priority_score >= 70,
      /\ report.confidence = "HIGH"
      /\ Cardinality({i \in Ids(store) \ {report_id} :
                         /\ store[i].locality = report.locality
                         /\ store[i].status # "CLOSED"}) >= 5,
      /\ report.status = "VERIFIED"
      /\ now - report.created_at >= 48 * MinutesPerHour,
      report.issue_type \in {"Safety", "Safety Concern", "Public Safety"}>>

\* evaluate_escalation answers as stated for this report
EvaluatedAsStated(store, report, report_id, now) ==
    LET rules == StatedRules(store, report, report_id, now)
        result == evaluate_escalation(store, report, report_id, now)
    IN  /\ result.escalation_flag = (\E k \in 1..4 : rules[k])
        /\ result.escalation_flag =>
               /\ Len(result.escalation_reason)
                      = Cardinality({k \in 1..4 : rules[k]})
               /\ rules[1] =>
                      result.escalation_reason[1] = "High priority score"

\* A reviewer's escalate request evaluates the report in this step
ReviewerEvaluates(v) ==
    /\ rev[v].pc = "ready"
    /\ rev'[v].pc = "reasoned"
    /\ rev'[v].op = "approve_escalation"

\* C22: evaluate_escalation returns escalation_flag true exactly when at
\* least one of the four rules holds (priority_score >= 70; confidence HIGH
\* and at least 5 non-closed reports in the same locality; status VERIFIED
\* and age >= 48 hours; a safety-critical issue type) and false otherwise,
\* with one reason per matching rule, the priority score named when rule 1
\* matches.
C22_EscalatedExactlyWhenARuleHolds ==
    [][/\ \A p \in Submitters :
             (sub[p].pc = "esc" /\ sub'[p].pc = "final")
                 => EvaluatedAsStated(reports, sub[p].snap[1], sub[p].rid, clock)
       /\ \A v \in Reviewers :
             ReviewerEvaluates(v)
                 => EvaluatedAsStated(reports, reports[rev'[v].rid],
                                      rev'[v].rid, clock)]_vars

\* The same for every evaluation of a report whose priority_score is set
C22_WhenPriorityIsSet ==
    [][/\ \A p \in Submitters :
             (sub[p].pc = "esc" /\ sub'[p].pc = "final")
                 => EvaluatedAsStated(reports, sub[p].snap[1], sub[p].rid, clock)
       /\ \A v \in Reviewers :
             (ReviewerEvaluates(v) /\ reports[rev'[v].rid].priority_score # None)
                 => EvaluatedAsStated(reports, reports[rev'[v].rid],
                                      rev'[v].rid, clock)]_vars

\* The time-persistence bonus as the specification states it: 5 for every
\* full day of age beyond the 24-hour threshold, at most 20
StatedPersistenceBonus(created_at, now) ==
    LET beyond == (now - created_at) - 24 * MinutesPerHour
    IN  IF beyond > 0
        THEN Min2(5 * (beyond \div (24 * MinutesPerHour)), 20)
        ELSE 0

\* The bonus as calculate_priority grants it: 5 points per day of age
\* beyond the threshold, in proportion and rounded down, at most 20
ProportionalPersistenceBonus(created_at, now) ==
    LET beyond == (now - created_at) - 24 * MinutesPerHour
    IN  IF beyond > 0
        THEN Min2((5 * beyond) \div (24 * MinutesPerHour), 20)
        ELSE 0

\* The sum of the stated weights and bonuses without the persistence bonus
StatedWeights(store, report, report_id) ==
    (CASE report.confidence = "HIGH" -> 30
       [] report.confidence = "MEDIUM" -> 15
       [] OTHER -> 5)
    + ISSUE_TYPE_WEIGHTS(report.issue_type)
    + (CASE report.status = "VERIFIED" -> 20
         [] report.status = "UNDER_REVIEW" -> 15
         [] report.status = "ACTION_TAKEN" -> 10
         [] OTHER -> 0)
    + (IF report.media_urls # <<>> THEN 10 ELSE 0)
    + Min2(5 * Cardinality({i \in Ids(store) \ {report_id} :
                               /\ store[i].locality = report.locality
                               /\ store[i].city = report.city
                               /\ store[i].status # "CLOSED"}), 15)

Clamp100(n) == Max2(0, Min2(100, n))

\* The score a step computes: <<report id, score>> for the priority step of
\* create_report and for the read of recalculate_priority, <<>> otherwise
PriorityComputed ==
    IF \E p \in Submitters : sub[p].pc = "prio" /\ sub'[p].pc = "esc"
    THEN LET p == CHOOSE q \in Submitters :
                      sub[q].pc = "prio" /\ sub'[q].pc = "esc"
         IN  <<sub[p].rid, reports'[sub[p].rid].priority_score>>
    ELSE IF \E v \in Reviewers :
               rev[v].pc = "ready" /\ rev'[v].pc = "calculated"
    THEN LET v == CHOOSE w \in Reviewers :
                      rev[w].pc = "ready" /\ rev'[w].pc = "calculated"
         IN  <<rev'[v].rid, rev'[v].entry[1]>>
    ELSE <<>>

\* Computing again at the same time, the score written, gives the score
SameScoreAgain(rid, score) ==
    LET written == [reports EXCEPT ![rid].priority_score = score]
    IN  calculate_priority(written, written[rid], rid, clock) = score

\* C23 as stated: calculate_priority returns the clamp to [0,100] of the
\* confidence, issue-type and status weights, +10 for media, +5 per full day
\* of age beyond 24 hours (at most 20) and +5 per other non-closed report of
\* the same locality and city (at most 15); the score is within [0,100] and
\* recalculating on the unchanged report at the same time gives the same
\* score.
C23_PriorityAsStated ==
    [][PriorityComputed # <<>> =>
          LET rid == PriorityComputed[1]
              score == PriorityComputed[2]
          IN  /\ score = Clamp100(StatedWeights(reports, reports[rid], rid)
                    + StatedPersistenceBonus(reports[rid].created_at, clock))
              /\ score \in 0..100
              /\ SameScoreAgain(rid, score)]_vars

\* C23, amended: the same with the time-persistence bonus in proportion to
\* the age beyond 24 hours, floor(5 * (age_hours - 24) / 24), at most 20.
C23_PriorityWithProportionalBonus ==
    [][PriorityComputed # <<>> =>
          LET rid == PriorityComputed[1]
              score == PriorityComputed[2]
          IN  /\ score = Clamp100(StatedWeights(reports, reports[rid], rid)
                    + ProportionalPersistenceBonus(reports[rid].created_at,
                                                   clock))
              /\ score \in 0..100
              /\ SameScoreAgain(rid, score)]_vars

\* A recalculation 60 hours after the submission has written a score that
\* holds the bonus of 7 for a day and a half beyond the threshold
C23_Witness ==
    \E v \in Reviewers :
        /\ rev[v].op = "recalculate_priority"
        /\ rev[v].out = "ok"
        /\ rev[v].rid \in Ids(reports)
        /\ clock - reports[rev[v].rid].created_at = 60 * MinutesPerHour
        /\ reports[rev[v].rid].priority_score = rev[v].entry[1]
        /\ rev[v].entry[1]
               = StatedWeights(reports, reports[rev[v].rid], rev[v].rid) + 7

\* Submission p's step has raised in the named engine
EngineFailed(p, engine) ==
    /\ engine \notin sub[p].failed
    /\ engine \in sub'[p].failed

\* C24: when an analytic engine raises while processing a report, the report
\* is left at its last-known-good values: a failed confidence calculation
\* leaves the label as it was, a failed priority computation during
\* create_report leaves priority_score unset rather than a number written by
\* the failed computation, and a failed escalation evaluation leaves
\* escalation_flag false.
C24_EngineFailureLeavesDefaults ==
    [][\A p \in Submitters :
          LET rid == sub[p].rid
          IN  /\ EngineFailed(p, "confidence")
                    => reports'[rid].confidence = reports[rid].confidence
              /\ EngineFailed(p, "priority")
                    => /\ reports[rid].priority_score = None
                       /\ reports'[rid].priority_score = None
              /\ EngineFailed(p, "escalation")
                    => /\ ~reports'[rid].escalation_flag
                       /\ reports'[rid].escalation_history = <<>>]_vars

\* The same without the priority engine
C24_ConfidenceAndEscalationDefaults ==
    [][\A p \in Submitters :
          LET rid == sub[p].rid
          IN  /\ EngineFailed(p, "confidence")
                    => reports'[rid].confidence = reports[rid].confidence
              /\ EngineFailed(p, "escalation")
                    => /\ ~reports'[rid].escalation_flag
                       /\ reports'[rid].escalation_history = <<>>]_vars

\* The lists of a report document that handlers append timestamped entries
\* to.  _update_confidence writes the fields confidence and
\* confidence_reason, upgrade_report_confidence writes confidence,
\* confidence_reason, reviewed_at and admin_note: single values that the
\* next write replaces, none of them a list.
HistoryEntries(r) == Len(r.status_history) + Len(r.escalation_history)

\* C25: every accepted change of a report's confidence label, by the
\* confidence engine on the new report, by upgrade propagation to its peers
\* or by a reviewer upgrade to HIGH, is paired with a timestamped history
\* entry appended on that report, from which the sequence of labels the
\* report has had can be reconstructed.
C25_ConfidenceChangeAppendsHistory ==
    [][\A i \in Ids(reports) :
          reports'[i].confidence # reports[i].confidence
              => HistoryEntries(reports'[i]) > HistoryEntries(reports[i])]_vars

\* Report i gets the label HIGH in this step
BecomesHigh(i) ==
    /\ reports[i].confidence # "HIGH"
    /\ reports'[i].confidence = "HIGH"

\* The step is the update of a reviewer's upgrade request for report i
ReviewerUpgrades(i) ==
    \E v \in Reviewers :
        /\ rev[v].pc = "validated"
        /\ rev[v].op = "upgrade_confidence"
        /\ rev[v].rid = i
        /\ rev'[v].out = "ok"

\* C26: a report's confidence becomes HIGH only through the admin/reviewer
\* upgrade operation; the automatic confidence engine never assigns HIGH to
\* any report, automatic progression stops at MEDIUM.
C26_HighOnlyByReviewer ==
    [][\A i \in Ids(reports) : BecomesHigh(i) => ReviewerUpgrades(i)]_vars

(***************************************************************************)
(* Two runs of attempt_issue_aggregation over the five stored reports,     *)
(* each started once, their store operations interleaved.                  *)
(***************************************************************************)
NextOverlap ==
    \/ \E a \in Aggregators : agg[a].out = "" /\ AggStart(a)
    \/ \E a \in Aggregators : AggCluster(a)
    \/ \E a \in Aggregators : AggIssueWrite(a)
    \/ \E a \in Aggregators : AggLink(a, FALSE)
    \/ \E a \in Aggregators : AggRecalc(a)
    \/ \E a \in Aggregators : AggJoinFind(a)
    \/ \E a \in Aggregators : AggJoinLink(a, FALSE)
    \/ \E a \in Aggregators : AggJoinUpdate(a)
    \/ \E a \in Aggregators : AggJoinRecalc(a)
    \/ \E a \in Aggregators : AggReturn(a)

SpecOverlap == InitFive /\ [][NextOverlap]_vars

\* Run a writes the issue document for a cluster its search found no issue for
WritesAfterEmptySearch(a) ==
    /\ agg[a].pc = "issue"
    /\ agg[a].existing_issue_id = None
    /\ agg'[a] # agg[a]

\* Issues j and k are ACTIVE, of one issue type and city, and hold the same
\* reports
SameClusterTwice(j, k) ==
    /\ j # k
    /\ issues[j].status = "ACTIVE"
    /\ issues[k].status = "ACTIVE"
    /\ issues[j].issue_type = issues[k].issue_type
    /\ issues[j].city = issues[k].city
    /\ issues[j].report_ids = issues[k].report_ids
    /\ Cardinality(issues[j].report_ids) >= MIN_REPORTS_FOR_ISSUE

\* C27: nothing separates _find_existing_issue from the issue write: a run
\* whose search found no matching issue creates a new ACTIVE issue from its
\* cluster whatever has been written since the search, so two overlapping
\* runs over one qualifying cluster that both searched before either wrote
\* both create an issue.
C27_CreateIgnoresLaterIssues ==
    [][\A a \in Aggregators :
          WritesAfterEmptySearch(a) =>
              /\ Len(issues') = Len(issues) + 1
              /\ issues'[Len(issues')].status = "ACTIVE"
              /\ issues'[Len(issues')].report_ids = SeqToSet(agg[a].cluster)
              /\ agg'[a].issue_id = Len(issues')]_vars

\* Both runs have searched for the same cluster of five and found nothing,
\* and both have created an issue: two ACTIVE issues of the same type and
\* city hold the same five reports
C27_Witness ==
    /\ Len(issues) = 2
    /\ SameClusterTwice(1, 2)
    /\ agg["a1"].cluster = agg["a2"].cluster
    /\ agg["a1"].existing_issue_id = None
    /\ agg["a2"].existing_issue_id = None
    /\ {agg["a1"].issue_id, agg["a2"].issue_id} = {1, 2}

(***************************************************************************)
(* One clustering pass over six reports of one kind on three lines 400 m   *)
(* apart: the store is filled by six accepted submissions, then            *)
(* attempt_issue_aggregation runs once.                                    *)
(***************************************************************************)
MaxClusterReports == 6
ClusterLatitudes == {0, 400, 800}

ClusterWords == <<"Water", "Leak", "Pipe", "Burst", "Flood", "Drain">>

\* The k-th submission, 60 m east of the one before, on the line given
cluster_input(k, latitude) ==
    [description |-> <<ClusterWords[k]>>, issue_type |-> "Water",
     city |-> "Pune", locality |-> "Kothrud, Pune", latitude |-> latitude,
     longitude |-> 60 * (k - 1), ip_address |-> "", media_urls |-> <<>>]

\* create_report accepts every one of the submissions, made one after another
RECURSIVE all_accepted(_, _, _)
all_accepted(store, inputs, now) ==
    IF inputs = <<>>
    THEN TRUE
    ELSE LET inp == Head(inputs)
             ip_address_hash == hash_ip_address(inp.ip_address)
         IN  /\ ~check_rate_limit(store, ip_address_hash, now).is_rate_limited
             /\ ~check_duplicate(store, ip_address_hash, inp.locality,
                                 inp.latitude, inp.longitude, inp.description,
                                 now).is_duplicate
             /\ all_accepted(create_report_alone(store, inp, now),
                             Tail(inputs), now)

InitClusters ==
    /\ \E lines \in [1..MaxClusterReports -> ClusterLatitudes] :
          LET inputs == [k \in 1..MaxClusterReports |->
                            cluster_input(k, lines[k])]
          IN  /\ all_accepted(<<>>, inputs, 0)
              /\ reports = create_reports_alone(<<>>, inputs, 0)
    /\ issues = <<>>
    /\ clock = 0
    /\ rev = [v \in Reviewers |-> ReviewerReady]
    /\ sub = [p \in Submitters |-> SubmitterReady]
    /\ agg = [a \in Aggregators |-> AggregatorReady]

NextClusters ==
    \/ agg["a1"].out = "" /\ AggStart("a1")
    \/ AggCluster("a1")
    \/ AggIssueWrite("a1")
    \/ AggLink("a1", FALSE)
    \/ AggRecalc("a1")
    \/ AggJoinFind("a1")
    \/ AggJoinLink("a1", FALSE)
    \/ AggJoinUpdate("a1")
    \/ AggJoinRecalc("a1")
    \/ AggReturn("a1")

SpecClusters == InitClusters /\ [][NextClusters]_vars

\* The clusters of a list are pairwise disjoint
PairwiseDisjoint(clusters) ==
    \A j, k \in 1..Len(clusters) :
        j # k => SeqToSet(clusters[j]) \cap SeqToSet(clusters[k]) = {}

\* C28: within one clustering pass the materialized clusters are pairwise
\* disjoint: a report that is a member of a cluster of size >= 5 is neither
\* the seed nor a member of any later cluster of the same pass.
C28_ClustersPairwiseDisjoint ==
    [][\A a \in Aggregators :
          (agg[a].pc = "ready" /\ agg'[a].pc # "ready")
              => PairwiseDisjoint(find_eligible_clusters(reports,
                                                         agg'[a].all_reports))]_vars

(***************************************************************************)
(* Duplicate detection: one client after another submits reports that      *)
(* repeat an earlier one by address, by place or by wording, or by none    *)
(* of them; time passes between the submissions.                           *)
(***************************************************************************)
MaxDuplicateReports == 3
MaxDuplicateClock == 20
DuplicateTick == 5

DuplicateInputs ==
    {[description |-> <<"Water", "Leak">>, issue_type |-> "Water",
      city |-> "Pune", locality |-> loc, latitude |-> 100, longitude |-> 100,
      ip_address |-> "10.0.0.1", media_urls |-> <<>>] :
          loc \in {"Kothrud, Pune", "MG Road"}}
    \cup
    {[description |-> <<"Pothole">>, issue_type |-> "Roadblock",
      city |-> "Pune", locality |-> "Kothrud, Pune", latitude |-> 900,
      longitude |-> 900, ip_address |-> "10.0.0.1", media_urls |-> <<>>],
     [description |-> <<"Pothole">>, issue_type |-> "Roadblock",
      city |-> "Pune", locality |-> "Kothrud, Pune", latitude |-> 130,
      longitude |-> 140, ip_address |-> "10.0.0.2", media_urls |-> <<>>],
     [description |-> <<"water", "leak">>, issue_type |-> "Water",
      city |-> "Pune", locality |-> "Kothrud, Pune", latitude |-> None,
      longitude |-> None, ip_address |-> " ", media_urls |-> <<>>],
     [description |-> <<"Garbage">>, issue_type |-> "Garbage",
      city |-> "Pune", locality |-> "Kothrud, Pune", latitude |-> 100,
      longitude |-> 151, ip_address |-> " ", media_urls |-> <<>>],
     [description |-> <<"Water", "Leak", "Pipe", "Burst", "Flood", "Drain",
                        "Sewage">>,
      issue_type |-> "Water", city |-> "Pune", locality |-> "Kothrud, Pune",
      latitude |-> 500, longitude |-> 500, ip_address |-> " ",
      media_urls |-> <<>>],
     [description |-> <<"water", "leak", "pipe", "burst", "flood", "drain",
                        "sewage", "garbage", "pothole", "road">>,
      issue_type |-> "Water", city |-> "Pune", locality |-> "Kothrud, Pune",
      latitude |-> 560, longitude |-> 500, ip_address |-> " ",
      media_urls |-> <<>>]}

NextDuplicate ==
    \/ Tick(DuplicateTick, MaxDuplicateClock)
    \/ \E inp \in DuplicateInputs :
          SubmitRateLimit("s1", inp, FALSE, MaxDuplicateReports)
    \/ SubmitDuplicate("s1", FALSE)
    \/ SubmitPersist("s1", FALSE)
    \/ SubmitAI("s1", "disabled")
    \/ SubmitConfidenceRead("s1", "none")
    \/ SubmitConfidenceSelf("s1", FALSE)
    \/ SubmitPriority("s1", "none")
    \/ SubmitEscalation("s1", "none")
    \/ SubmitReturn("s1", FALSE)

SpecDuplicate == InitStore /\ [][NextDuplicate]_vars

\* The word-set Jaccard similarity of two descriptions is above 0.7
JaccardAboveSevenTenths(a, b) ==
    LET words_a == {LowerStr(a[i]) : i \in 1..Len(a)}
        words_b == {LowerStr(b[i]) : i \in 1..Len(b)}
    IN  /\ words_a # {}
        /\ words_b # {}
        /\ 10 * Cardinality(words_a \cap words_b)
              > 7 * Cardinality(words_a \cup words_b)

\* The ways in which stored report r repeats submission inp
MatchKinds(r, inp) ==
    {k \in {"same_ip", "same_location", "similar_description"} :
        \/ /\ k = "same_ip"
           /\ hash_ip_address(inp.ip_address) # NoneStr
           /\ r.ip_address_hash = hash_ip_address(inp.ip_address)
        \/ /\ k = "same_location"
           /\ inp.latitude # None /\ inp.longitude # None
           /\ r.latitude # None /\ r.longitude # None
           /\ (r.latitude - inp.latitude) * (r.latitude - inp.latitude)
                 + (r.longitude - inp.longitude) * (r.longitude - inp.longitude)
                 <= 50 * 50
        \/ /\ k = "similar_description"
           /\ JaccardAboveSevenTenths(inp.description, r.description)}

\* Same IP is checked before location, location before description
FirstKind(kinds) ==
    IF "same_ip" \in kinds THEN "same_ip"
    ELSE IF "same_location" \in kinds THEN "same_location"
    ELSE "similar_description"

\* Stored reports of the submission's locality, created in the trailing 15
\* minutes, that repeat it in some way
StoredMatches(inp) ==
    {i \in Ids(reports) :
        /\ reports[i].locality = inp.locality
        /\ clock - reports[i].created_at <= 15
        /\ MatchKinds(reports[i], inp) # {}}

\* The duplicate check of submitter p is decided in this step, its read succeeding
DuplicateDecided(p) ==
    /\ sub[p].pc = "dup"
    /\ sub'[p].pc # "dup"
    /\ sub'[p].failed = sub[p].failed

Linked(r, k) == (reports[r].issue_id = k) <=> (r \in issues[k].report_ids)

\* No aggregation run is between two of its store operations
NoRunUnderWay == \A a \in Aggregators : agg[a].pc = "ready"

\* C30: link consistency: in every state reached by aggregation runs, a
\* report's issue_id is I exactly when the report's id is in issue I's
\* report_ids, and no report id appears in the report_ids of two different
\* issues.
C30_LinkConsistency ==
    NoRunUnderWay =>
        /\ \A r \in Ids(reports), k \in Ids(issues) : Linked(r, k)
        /\ \A j, k \in Ids(issues) :
              j # k => issues[j].report_ids \cap issues[k].report_ids = {}

====
